---- MODULE Spec2Model ----
(***************************************************************************)
(* The semantic resolver ("interpreter") of compiled-lang-test: the scope  *)
(* tree (interpreter/scope.rs), the binding and type model                 *)
(* (interpreter/value.rs, interpreter/ast.rs), the macro expanders         *)
(* (interpreter/macros.rs) and the two-pass driver (interpreter/mod.rs).   *)
(*                                                                         *)
(* Values of the Rust enums are tuples whose first element is the variant  *)
(* name.  Scopes live in an arena (a sequence); a scope's id is its index, *)
(* parent 0 is Option::None, scope 1 is the root.  An Option is a sequence *)
(* of length 0 (None) or 1 (Some).  A RefCell borrow that is outstanding   *)
(* is an element of the set `borrowed`; borrow_mut on such a scope panics. *)
(***************************************************************************)
EXTENDS Integers, Sequences, FiniteSets, TLC

\* ------------------------------------------------------------------ bounds
MaxScopes == 3
MaxBindings == 3
MaxForms == 2

\* ------------------------------------------------- ItpTypeValue (value.rs)
TInt == <<"Int">>
TFloat == <<"Float">>
TString == <<"String">>
TChar == <<"Char">>
TBool == <<"Bool">>
TVoid == <<"Void">>
TArray(t) == <<"Array", t>>
TGeneric(name) == <<"Generic", name>>
TFunction(parameters, return_type) == <<"Function", parameters, return_type>>

\* struct ItpFunctionParameters; parameters is a sequence of <<name, type>>
ItpFunctionParameters(generics, parameters, variadic) ==
    [generics |-> generics, parameters |-> parameters, variadic |-> variadic]

\* ------------------------------------------------------ ItpValue (value.rs)
VParam(i, t) == <<"Param", i, t>>
VConstant(c) == <<"Constant", c>>
VNamed(id, t) == <<"Named", id, t>>
VFunction(name, parameters, body, return_type) ==
    <<"Function", name, parameters, body, return_type>>
VUnItpedFunction(name, parameters, body, return_type) ==
    <<"UnItpedFunction", name, parameters, body, return_type>>
VNativeFunction(name, parameters, return_type, intrinsic) ==
    <<"NativeFunction", name, parameters, return_type, intrinsic>>

\* The type a panicking get_type never returns
TypePanic == <<"panic">>

RECURSIVE ItpValue_get_type(_), ItpConstantValue_get_type(_)

\* impl ItpValue { fn get_type }
ItpValue_get_type(v) ==
    CASE v[1] = "Param" -> v[3]
      [] v[1] = "Constant" -> ItpConstantValue_get_type(v[2])
      [] v[1] = "Named" -> v[3]
      [] v[1] = "Function" -> TFunction(v[3], v[5])
      [] v[1] = "UnItpedFunction" -> TFunction(v[3], v[5])
      [] v[1] = "NativeFunction" -> TFunction(v[3], v[4])

\* impl ItpConstantValue { fn get_type }: a constant is <<variant, payload>>
ItpConstantValue_get_type(c) ==
    CASE c[1] = "Int" -> TInt
      [] c[1] = "Float" -> TFloat
      [] c[1] = "String" -> TString
      [] c[1] = "Char" -> TChar
      [] c[1] = "Bool" -> TBool
      [] c[1] = "Array" ->
           LET types == {ItpValue_get_type(c[2][i]) : i \in 1..Len(c[2])}
           IN  IF Cardinality(types) = 1
               THEN TArray(CHOOSE t \in types : TRUE)
               ELSE TypePanic

\* ------------------------------------------------------- Scope (scope.rs)
EmptyBindings == [n \in {} |-> <<>>]

\* Scope::new
Scope_new == [parent |-> 0, bindings |-> EmptyBindings]

\* Scope::new_child, the new scope appended to the arena
new_child(sc, parent) == Append(sc, [parent |-> parent, bindings |-> EmptyBindings])

\* HashMap::insert
Insert(b, name, value) ==
    [n \in DOMAIN b \cup {name} |-> IF n = name THEN value ELSE b[n]]

\* The three messages scope.rs raises
MsgAlreadyDefined == "Variable already defined"
MsgDifferentType == "Variable already defined with different type"
MsgNotDefined == "Variable not defined"

\* Results of a scope mutation: the arena after it, and how it ended
OpOk(sc) == [st |-> "ok", msg |-> "", sc |-> sc]
OpErr(sc, msg) == [st |-> "err", msg |-> msg, sc |-> sc]
OpPanic(sc) == [st |-> "panic", msg |-> "already borrowed: BorrowMutError", sc |-> sc]

RECURSIVE get_outermost(_, _, _)
\* get as a lookup that lets the outermost definition win
get_outermost(sc, s, name) ==
    LET up == IF sc[s].parent # 0 THEN get_outermost(sc, sc[s].parent, name) ELSE <<>>
    IN  IF up # <<>> THEN up
        ELSE IF name \in DOMAIN sc[s].bindings THEN <<sc[s].bindings[name]>> ELSE <<>>

RECURSIVE get(_, _, _)
\* Scope::get
get(sc, s, name) ==
    IF name \in DOMAIN sc[s].bindings
    THEN <<sc[s].bindings[name]>>
    ELSE IF sc[s].parent # 0
         THEN get(sc, sc[s].parent, name)
         ELSE <<>>

\* set as a define that refuses a name an ancestor holds
set_consulting_ancestors(sc, s, name, value) ==
    IF get(sc, s, name) # <<>>
    THEN OpErr(sc, MsgAlreadyDefined)
    ELSE OpOk([sc EXCEPT ![s].bindings = Insert(@, name, value)])

\* Scope::set
set(sc, s, name, value) ==
    IF name \in DOMAIN sc[s].bindings
    THEN OpErr(sc, MsgAlreadyDefined)
    ELSE OpOk([sc EXCEPT ![s].bindings = Insert(@, name, value)])

RECURSIVE Holds(_, _, _)
Holds(sc, s, name) ==
    \/ name \in DOMAIN sc[s].bindings
    \/ sc[s].parent # 0 /\ Holds(sc, sc[s].parent, name)

\* replace as a shadowing write: the new binding lands in the scope it was
\* issued from whenever any scope of the chain holds the name
replace_shadowing(sc, brw, s, name, value) ==
    IF Holds(sc, s, name)
    THEN OpOk([sc EXCEPT ![s].bindings = Insert(@, name, value)])
    ELSE OpErr(sc, MsgNotDefined)

RECURSIVE replace(_, _, _, _, _)
\* Scope::replace; parent.borrow_mut() panics when the parent is borrowed
replace(sc, brw, s, name, value) ==
    IF name \in DOMAIN sc[s].bindings
    THEN IF ItpValue_get_type(sc[s].bindings[name]) # ItpValue_get_type(value)
         THEN OpErr(sc, MsgDifferentType)
         ELSE OpOk([sc EXCEPT ![s].bindings = Insert(@, name, value)])
    ELSE IF sc[s].parent # 0
         THEN IF sc[s].parent \in brw
              THEN OpPanic(sc)
              ELSE replace(sc, brw, sc[s].parent, name, value)
         ELSE OpErr(sc, MsgNotDefined)

\* e.to_string().contains("not defined"), on the messages replace raises
ContainsNotDefined(msg) ==
    CASE msg = MsgNotDefined -> TRUE
      [] msg = MsgDifferentType -> FALSE
      [] msg = MsgAlreadyDefined -> FALSE

\* Scope::set_or_replace
set_or_replace(sc, brw, s, name, value) ==
    LET r == replace(sc, brw, s, name, value)
    IN  IF r.st = "err"
        THEN IF ContainsNotDefined(r.msg) THEN set(sc, s, name, value) ELSE r
        ELSE r

\* scope.borrow_mut() at a call site, then the operation on the borrowed scope
borrow_mut(sc, brw, s, r) == IF s \in brw THEN OpPanic(sc) ELSE r

\* ----------------------------------------------- tokens.rs, parser/ast.rs
\* struct Identifier {name, kind}
Identifier(name, kind) == <<name, kind>>
Var(name) == Identifier(name, "Variable")
Mac(name) == Identifier(name, "Macro")

\* enum ParsedAstKind; a literal's payload is the text of its value
PFloat(x) == <<"Float", x>>
PString(x) == <<"String", x>>
PArray(values) == <<"Array", values>>
PIdentifier(id) == <<"Identifier", id>>
PCall(name, args) == <<"Call", name, args>>

\* --------------------------------------------- ItpAst (interpreter/ast.rs)
IConstant(c) == <<"Constant", c>>
IArray(values) == <<"Array", values>>
IVariable(name, result_type) == <<"Variable", name, result_type>>
ISetVariable(name, value) == <<"SetVariable", name, value>>
IParam(position, name, result_type) == <<"Param", position, name, result_type>>
IConditional(condition, then, else_) == <<"Conditional", condition, then, else_>>
ILoop(condition, body) == <<"Loop", condition, body>>
ICall(function, arguments, result_type) == <<"Call", function, arguments, result_type>>

RECURSIVE ItpAst_get_type(_)
\* impl ItpAst { fn get_type }
ItpAst_get_type(n) ==
    CASE n[1] = "Constant" -> ItpConstantValue_get_type(n[2])
      [] n[1] = "Array" ->
           TArray(IF n[2] = <<>> THEN TVoid ELSE ItpAst_get_type(n[2][1]))
      [] n[1] = "Variable" -> n[3]
      [] n[1] = "SetVariable" -> TVoid
      [] n[1] = "Conditional" ->
           IF ItpAst_get_type(n[3]) # ItpAst_get_type(n[4])
           THEN TVoid
           ELSE ItpAst_get_type(n[3])
      [] n[1] = "Loop" -> TVoid
      [] n[1] = "Param" -> n[4]
      [] n[1] = "Call" -> n[4]

\* ------------------------------------------ call checking (value.rs)
\* enum IFPCheck
IFPOk(generics) == <<"Ok", generics>>
IFPNotEnoughParameters == <<"NotEnoughParameters">>
IFPTooManyParameters == <<"TooManyParameters">>
IFPWrongType(i, a, b) == <<"WrongType", i, a, b>>

RECURSIVE check_param_flat_arrays(_, _, _, _)
\* check_param comparing an Array parameter as a whole (no recursion into
\* the element types)
check_param_flat_arrays(generics, i, param, value) ==
    CASE param[1] = "Generic" ->
           IF param[2] \notin DOMAIN generics
           THEN IFPOk(Insert(generics, param[2], value))
           ELSE IF generics[param[2]] = value
                THEN IFPOk(generics)
                ELSE IFPWrongType(i, param, value)
      [] OTHER ->
           IF param = value THEN IFPOk(generics) ELSE IFPWrongType(i, param, value)

RECURSIVE check_param(_, _, _, _)
\* fn check_param; Ok carries the generics map as it is after the call
check_param(generics, i, param, value) ==
    CASE param[1] = "Generic" ->
           IF param[2] \notin DOMAIN generics
           THEN IFPOk(Insert(generics, param[2], value))
           ELSE IF generics[param[2]] = value
                THEN IFPOk(generics)
                ELSE IFPWrongType(i, param, value)
      [] param[1] = "Array" ->
           IF value[1] = "Array"
           THEN check_param(generics, i, param[2], value[2])
           ELSE IFPWrongType(i, param, value)
      [] OTHER ->
           IF param = value THEN IFPOk(generics) ELSE IFPWrongType(i, param, value)

RECURSIVE check_from(_, _, _, _)
\* the loop of check_params from position k (one-based; i = k - 1 in the code)
check_from(parameters, params, k, generics) ==
    IF k > Len(parameters)
    THEN IFPOk(generics)
    ELSE LET r == check_param(generics, k - 1, parameters[k][2], params[k])
         IN  IF r[1] = "Ok" THEN check_from(parameters, params, k + 1, r[2]) ELSE r

\* check_params without the upper bound on the number of arguments
check_params_no_upper_bound(self, params) ==
    IF Len(params) < Len(self.parameters)
    THEN IFPNotEnoughParameters
    ELSE check_from(self.parameters, params, 1, EmptyBindings)

\* check_params holding the arguments past the declared ones to the type of
\* the last declared parameter
check_params_typed_variadic(self, params) ==
    IF Len(params) < Len(self.parameters)
    THEN IFPNotEnoughParameters
    ELSE IF ~self.variadic /\ Len(params) > Len(self.parameters)
         THEN IFPTooManyParameters
         ELSE LET k == Len(self.parameters)
                  bad == {i \in (k + 1)..Len(params) :
                             k = 0 \/ params[i] # self.parameters[k][2]}
              IN  IF bad = {}
                  THEN check_from(self.parameters, params, 1, EmptyBindings)
                  ELSE LET i == CHOOSE i \in bad : \A j \in bad : i <= j
                       IN  IFPWrongType(i - 1, self.parameters[k][2], params[i])

\* ItpFunctionParameters::check_params
check_params(self, params) ==
    IF Len(params) < Len(self.parameters)
    THEN IFPNotEnoughParameters
    ELSE IF ~self.variadic /\ Len(params) > Len(self.parameters)
         THEN IFPTooManyParameters
         ELSE check_from(self.parameters, params, 1, EmptyBindings)

\* ------------------------------------------------- results of a lowering
\* Result<Vec<ItpAst>>, or a panic, with the arena as the call left it.
\* pos: the error was made by ParsedAst::error and carries line and column.
LowOk(nodes, sc) ==
    [st |-> "ok", msg |-> "", pos |-> FALSE, name |-> "", detail |-> <<>>,
     nodes |-> nodes, sc |-> sc]
LowErr(msg, pos, name, detail, sc) ==
    [st |-> "err", msg |-> msg, pos |-> pos, name |-> name, detail |-> detail,
     nodes |-> <<>>, sc |-> sc]
LowPanic(msg, sc) ==
    [st |-> "panic", msg |-> msg, pos |-> FALSE, name |-> "", detail |-> <<>>,
     nodes |-> <<>>, sc |-> sc]
\* a failed scope operation propagated by `?` (anyhow!, no position)
LowFromOp(r) ==
    IF r.st = "panic" THEN LowPanic(r.msg, r.sc)
    ELSE LowErr(r.msg, FALSE, "", <<>>, r.sc)

\* ------------------------------------------- native_fns.rs: add_native_fns
FloatBinary ==
    ItpFunctionParameters(<<>>, <<<<"a", TFloat>>, <<"b", TFloat>>>>, FALSE)

NativeFns ==
    [n \in {"+", "-", "*", "/", "==", "get", "printf"} |->
        CASE n \in {"+", "-", "*", "/"} ->
               VNativeFunction(n, FloatBinary, TFloat, TRUE)
          [] n = "==" ->
               VNativeFunction(n,
                   ItpFunctionParameters(<<"T">>,
                       <<<<"a", TGeneric("T")>>, <<"b", TGeneric("T")>>>>, FALSE),
                   TBool, TRUE)
          [] n = "get" ->
               VNativeFunction(n,
                   ItpFunctionParameters(<<"T">>,
                       <<<<"array", TArray(TGeneric("T"))>>, <<"index", TFloat>>>>, FALSE),
                   TGeneric("T"), TRUE)
          [] n = "printf" ->
               VNativeFunction(n,
                   ItpFunctionParameters(<<>>, <<<<"format", TString>>>>, TRUE),
                   TVoid, FALSE)]

\* ---------------------------------------------- the resolver (mod.rs, macros.rs)
\* macros(): the names of the macro table
MacroNames == {"fn", "set", "if", "while"}

\* Call branch: the bindings a call head may resolve to (not callable when
\* only lowered functions count)
IsCallable_lowered_only(v) == v[1] \in {"Function", "NativeFunction"}

\* Call branch: the bindings a call head may resolve to
IsCallable(v) == v[1] \in {"Function", "UnItpedFunction", "NativeFunction"}

\* the parameters and the return type the three callable variants expose
ParametersOf(v) == v[3]
ReturnTypeOf(v) == IF v[1] = "NativeFunction" THEN v[4] ELSE v[5]

\* fn_macro: the parameter list, every parameter typed Float; stops at the
\* first element that is no identifier
RECURSIVE fn_args(_)
fn_args(args) ==
    IF args = <<>> THEN [ok |-> TRUE, list |-> <<>>]
    ELSE IF Head(args)[1] # "Identifier" THEN [ok |-> FALSE, list |-> <<>>]
    ELSE LET rest == fn_args(Tail(args))
         IN  IF rest.ok
             THEN [ok |-> TRUE, list |-> <<<<Head(args)[2][1], TFloat>>>> \o rest.list]
             ELSE rest

\* fn_macro writing the binding whether or not the scope holds the name
fn_macro_overwriting(ast, s, sc, brw) ==
    IF Len(ast) < 1 THEN LowPanic("index out of bounds", sc)
    ELSE IF ast[1][1] # "Identifier"
    THEN LowErr("Expected identifier", TRUE, "", <<>>, sc)
    ELSE IF Len(ast) < 2 THEN LowPanic("index out of bounds", sc)
    ELSE IF ast[2][1] # "Array"
    THEN LowErr("Expected array", TRUE, "", <<>>, sc)
    ELSE LET name == ast[1][2]
             args == fn_args(ast[2][2])
             body == SubSeq(ast, 3, Len(ast))
         IN  IF ~args.ok
             THEN LowErr("Expected identifier", TRUE, "", <<>>, sc)
             ELSE LowOk(<<>>,
                        [sc EXCEPT ![s].bindings =
                            Insert(@, name[1],
                                VUnItpedFunction(name[1],
                                    ItpFunctionParameters(<<>>, args.list, FALSE),
                                    body, TFloat))])

\* fn_macro
fn_macro(ast, s, sc, brw) ==
    IF Len(ast) < 1 THEN LowPanic("index out of bounds", sc)
    ELSE IF ast[1][1] # "Identifier"
    THEN LowErr("Expected identifier", TRUE, "", <<>>, sc)
    ELSE IF Len(ast) < 2 THEN LowPanic("index out of bounds", sc)
    ELSE IF ast[2][1] # "Array"
    THEN LowErr("Expected array", TRUE, "", <<>>, sc)
    ELSE LET name == ast[1][2]
             args == fn_args(ast[2][2])
             body == SubSeq(ast, 3, Len(ast))
         IN  IF ~args.ok
             THEN LowErr("Expected identifier", TRUE, "", <<>>, sc)
             ELSE LET function ==
                          VUnItpedFunction(name[1],
                              ItpFunctionParameters(<<>>, args.list, FALSE),
                              body, TFloat)
                      r == borrow_mut(sc, brw, s, set(sc, s, name[1], function))
                  IN  IF r.st = "ok" THEN LowOk(<<>>, r.sc) ELSE LowFromOp(r)

RECURSIVE interpret_ast(_, _, _, _), interpret_each(_, _, _, _)

\* set_macro
set_macro(ast, s, sc, brw) ==
    IF Len(ast) # 2 THEN LowErr("Expected 2 arguments", FALSE, "", <<>>, sc)
    ELSE IF ast[1][1] # "Identifier"
    THEN LowErr("Expected identifier", TRUE, "", <<>>, sc)
    ELSE LET name == ast[1][2]
             value == interpret_ast(ast[2], s, sc, brw)
         IN  IF value.st # "ok" THEN value
             ELSE IF Len(value.nodes) # 1
             THEN LowErr("Expected single value", FALSE, "", <<>>, value.sc)
             ELSE LET r == borrow_mut(value.sc, brw, s,
                               set_or_replace(value.sc, brw, s, name[1],
                                   VNamed(name, ItpAst_get_type(value.nodes[1]))))
                  IN  IF r.st = "ok"
                      THEN LowOk(<<ISetVariable(name, value.nodes[1])>>, r.sc)
                      ELSE LowFromOp(r)

\* if_macro
if_macro(ast, s, sc, brw) ==
    IF Len(ast) # 3 THEN LowErr("Expected 3 arguments", FALSE, "", <<>>, sc)
    ELSE LET condition == interpret_ast(ast[1], s, sc, brw)
         IN  IF condition.st # "ok" THEN condition
             ELSE LET then == interpret_ast(ast[2], s, condition.sc, brw)
                  IN  IF then.st # "ok" THEN then
                      ELSE LET else_ == interpret_ast(ast[3], s, then.sc, brw)
                           IN  IF else_.st # "ok" THEN else_
                               ELSE IF Len(condition.nodes) # 1
                               THEN LowErr("Expected single condition", FALSE, "", <<>>, else_.sc)
                               ELSE IF Len(then.nodes) # 1
                               THEN LowErr("Expected single then", FALSE, "", <<>>, else_.sc)
                               ELSE IF Len(else_.nodes) # 1
                               THEN LowErr("Expected single else", FALSE, "", <<>>, else_.sc)
                               ELSE LowOk(<<IConditional(condition.nodes[1],
                                               then.nodes[1], else_.nodes[1])>>, else_.sc)

\* while_macro
while_macro(ast, s, sc, brw) ==
    IF Len(ast) # 2 THEN LowErr("Expected 2 arguments", FALSE, "", <<>>, sc)
    ELSE LET condition == interpret_ast(ast[1], s, sc, brw)
         IN  IF condition.st # "ok" THEN condition
             ELSE LET body == interpret_ast(ast[2], s, condition.sc, brw)
                  IN  IF body.st # "ok" THEN body
                      ELSE IF Len(condition.nodes) # 1
                      THEN LowErr("Expected single condition", FALSE, "", <<>>, body.sc)
                      ELSE IF Len(body.nodes) # 1
                      THEN LowErr("Expected single body", FALSE, "", <<>>, body.sc)
                      ELSE LowOk(<<ILoop(condition.nodes[1], body.nodes[1])>>, body.sc)

\* interpret_ast, Call with a macro head: the expander gets the arguments,
\* the scope the call is lowered in, and the interpreter
macro_call(name, args, s, sc, brw) ==
    IF name[1] \notin MacroNames
    THEN LowErr("Macro not found", TRUE, name[1], <<>>, sc)
    ELSE CASE name[1] = "fn" -> fn_macro(args, s, sc, brw)
           [] name[1] = "set" -> set_macro(args, s, sc, brw)
           [] name[1] = "if" -> if_macro(args, s, sc, brw)
           [] name[1] = "while" -> while_macro(args, s, sc, brw)

\* the call branch letting a call of a name bound nowhere through, to be
\* resolved later
function_call_lenient(name, args, s, sc, brw) ==
    LET func == get(sc, s, name[1])
    IN  IF func = <<>>
        THEN LET result == interpret_each(args, Len(sc) + 1, new_child(sc, s), brw)
             IN  IF result.st # "ok" THEN result
                 ELSE LowOk(<<ICall(name, result.nodes, TVoid)>>, result.sc)
        ELSE IF ~IsCallable(func[1])
        THEN LowErr("is not a function", TRUE, name[1], <<>>, sc)
        ELSE LET sc1 == new_child(sc, s)
                 new_scope == Len(sc1)
                 result == interpret_each(args, new_scope, sc1, brw)
             IN  IF result.st # "ok" THEN result
                 ELSE LET chk == check_params(ParametersOf(func[1]),
                                     [i \in 1..Len(result.nodes) |->
                                         ItpAst_get_type(result.nodes[i])])
                      IN  IF chk[1] = "Ok"
                          THEN LowOk(<<ICall(name, result.nodes, ReturnTypeOf(func[1]))>>,
                                     result.sc)
                          ELSE LowErr("Wrong parameters", TRUE, name[1], <<>>, result.sc)

\* interpret_ast, Call with a variable head
function_call(name, args, s, sc, brw) ==
    LET func == get(sc, s, name[1])
    IN  IF func = <<>>
        THEN LowErr("Function not found", TRUE, name[1], <<>>, sc)
        ELSE IF ~IsCallable(func[1])
        THEN LowErr("is not a function", TRUE, name[1], <<>>, sc)
        ELSE LET sc1 == new_child(sc, s)
                 new_scope == Len(sc1)
                 result == interpret_each(args, new_scope, sc1, brw)
             IN  IF result.st # "ok" THEN result
                 ELSE LET chk == check_params(ParametersOf(func[1]),
                                     [i \in 1..Len(result.nodes) |->
                                         ItpAst_get_type(result.nodes[i])])
                      IN  CASE chk[1] = "Ok" ->
                                 LowOk(<<ICall(name, result.nodes, ReturnTypeOf(func[1]))>>,
                                       result.sc)
                            [] chk[1] = "NotEnoughParameters" ->
                                 LowErr("Not enough parameters", TRUE, name[1], <<>>, result.sc)
                            [] chk[1] = "TooManyParameters" ->
                                 LowErr("Too many parameters", TRUE, name[1], <<>>, result.sc)
                            [] chk[1] = "WrongType" ->
                                 \* "Wrong type for parameter {}: got {:?}, expected {:?}"
                                 LowErr("Wrong type for parameter", TRUE, name[1],
                                        <<chk[2], chk[3], chk[4]>>,
                                        result.sc)

\* interpret_ast, Identifier
identifier(id, s, sc) ==
    CASE id[2] = "Variable" ->
           LET value == get(sc, s, id[1])
           IN  IF value = <<>>
               THEN LowErr("Variable not found", TRUE, id[1], <<>>, sc)
               ELSE CASE value[1][1] = "Constant" ->
                           LowOk(<<IConstant(value[1][2])>>, sc)
                      [] value[1][1] = "Param" ->
                           LowOk(<<IParam(value[1][2], id, value[1][3])>>, sc)
                      [] OTHER ->
                           LowOk(<<IVariable(id, ItpValue_get_type(value[1]))>>, sc)
      [] id[2] = "Macro" -> LowErr("Macro not allowed here", TRUE, id[1], <<>>, sc)
      [] id[2] = "Type" -> LowErr("Type not allowed here", TRUE, id[1], <<>>, sc)

\* Interpreter::interpret_ast
interpret_ast(ast, s, sc, brw) ==
    CASE ast[1] \in {"Int", "Float", "String", "Char", "Bool"} ->
           LowOk(<<IConstant(ast)>>, sc)
      [] ast[1] = "Array" -> interpret_each(ast[2], s, sc, brw)
      [] ast[1] = "Identifier" -> identifier(ast[2], s, sc)
      [] ast[1] = "Call" ->
           CASE ast[2][2] = "Macro" -> macro_call(ast[2], ast[3], s, sc, brw)
             [] ast[2][2] = "Variable" -> function_call(ast[2], ast[3], s, sc, brw)
             [] ast[2][2] = "Type" ->
                  LowErr("Type not allowed here", TRUE, ast[2][1], <<>>, sc)

\* the loop keeping one node per element (push of the first node instead of
\* extend)
interpret_each_one_node(asts, s, sc, brw) ==
    IF asts = <<>> THEN LowOk(<<>>, sc)
    ELSE LET h == interpret_ast(Head(asts), s, sc, brw)
         IN  IF h.st # "ok" THEN h
             ELSE LET t == interpret_each(Tail(asts), s, h.sc, brw)
                  IN  IF t.st # "ok" THEN t
                      ELSE LowOk((IF h.nodes = <<>> THEN <<>> ELSE <<h.nodes[1]>>)
                                 \o t.nodes, t.sc)

\* for x in xs { result.extend(self.interpret_ast(x, scope)?) }
interpret_each(asts, s, sc, brw) ==
    IF asts = <<>> THEN LowOk(<<>>, sc)
    ELSE LET h == interpret_ast(Head(asts), s, sc, brw)
         IN  IF h.st # "ok" THEN h
             ELSE LET t == interpret_each(Tail(asts), s, h.sc, brw)
                  IN  IF t.st # "ok" THEN t ELSE LowOk(h.nodes \o t.nodes, t.sc)

\* ------------------------------------------------------------------ state
VARIABLES
    scopes,         \* the arena of Scope records; scopes[1] is Interpreter.scope
    borrowed,       \* scopes with an outstanding shared RefCell borrow
    prog,           \* the parsed program handed to Interpreter::interpret
    pc,             \* where interpret is: "pass1", "pass2", "install", "done"
    idx,            \* index of the next top-level form of pass 1
    todo,           \* placeholders the sweep of pass 2 has not visited yet
    new_functions,  \* the HashMap new_functions of pass 2
    result          \* what interpret returned ("running" until it has)

vars == <<scopes, borrowed, prog, pc, idx, todo, new_functions, result>>

\* ---------------------------------------- the scope tree under its callers
ScopeNames == {"x", "y"}
ScopeValues == {VParam(0, TFloat), VNamed("x", TFloat), VNamed("x", TString)}

resolverIdle == <<prog, pc, idx, todo, new_functions, result>>

\* The scope a lowering step works in is never the root while the sweep of
\* pass 2 iterates over the root's bindings (mod.rs:195: a child per function)
CurrentScope(s) == s \in 1..Len(scopes) /\ s \notin borrowed

\* How many bindings the arena holds
RECURSIVE CountBindings(_)
CountBindings(sc) ==
    IF sc = <<>> THEN 0
    ELSE Cardinality(DOMAIN Head(sc).bindings) + CountBindings(Tail(sc))

ScopeInit ==
    /\ scopes = <<Scope_new>>
    /\ borrowed = {}
    /\ prog = <<>>
    /\ pc = "scope"
    /\ idx = 0
    /\ todo = {}
    /\ new_functions = EmptyBindings
    /\ result = [st |-> "running", msg |-> "", pos |-> FALSE]

\* Scope::new_child(parent)
SNewChild ==
    \E p \in 1..Len(scopes) :
        /\ Len(scopes) < MaxScopes
        /\ scopes' = new_child(scopes, p)
        /\ UNCHANGED <<borrowed, resolverIdle>>

\* scope.borrow_mut().set(name, value)
SSet ==
    \E s \in 1..Len(scopes), n \in ScopeNames, v \in ScopeValues :
        /\ CurrentScope(s)
        /\ CountBindings(scopes) < MaxBindings
        /\ scopes' = borrow_mut(scopes, borrowed, s, set(scopes, s, n, v)).sc
        /\ UNCHANGED <<borrowed, resolverIdle>>

\* scope.borrow_mut().replace(name, value)
SReplace ==
    \E s \in 1..Len(scopes), n \in ScopeNames, v \in ScopeValues :
        /\ CurrentScope(s)
        /\ scopes' = borrow_mut(scopes, borrowed, s,
                                replace(scopes, borrowed, s, n, v)).sc
        /\ UNCHANGED <<borrowed, resolverIdle>>

\* scope.borrow_mut().set_or_replace(name, value)
SSetOrReplace ==
    \E s \in 1..Len(scopes), n \in ScopeNames, v \in ScopeValues :
        /\ CurrentScope(s)
        /\ CountBindings(scopes) < MaxBindings
        /\ scopes' = borrow_mut(scopes, borrowed, s,
                                set_or_replace(scopes, borrowed, s, n, v)).sc
        /\ UNCHANGED <<borrowed, resolverIdle>>

\* for .. in self.scope.clone().borrow().bindings.iter(): the root stays
\* borrowed for the whole loop
SBeginSweep ==
    /\ borrowed = {}
    /\ borrowed' = {1}
    /\ UNCHANGED <<scopes, resolverIdle>>

\* the loop ends and the Ref is dropped
SEndSweep ==
    /\ borrowed = {1}
    /\ borrowed' = {}
    /\ UNCHANGED <<scopes, resolverIdle>>

ScopeNext ==
    \/ SNewChild
    \/ SSet
    \/ SReplace
    \/ SSetOrReplace
    \/ SBeginSweep
    \/ SEndSweep

ScopeSpec == ScopeInit /\ [][ScopeNext]_vars

\* ------------------------------------------------ the programs resolved
Num(x) == PFloat(x)
Ref(name) == PIdentifier(Var(name))
Call(name, args) == PCall(Var(name), args)
Macro(name, args) == PCall(Mac(name), args)
Fn(name, params, body) ==
    Macro("fn", <<Ref(name), PArray([i \in 1..Len(params) |-> Ref(params[i])])>> \o body)
Set(name, value) == Macro("set", <<Ref(name), value>>)

\* (@fn add[a, b] (+ a b))
FnAdd == Fn("add", <<"a", "b">>, <<Call("+", <<Ref("a"), Ref("b")>>)>>)
\* (@fn main[] (@set n 10.0) (printf "..." n (add n 1.0)))
FnMain ==
    Fn("main", <<>>,
       <<Set("n", Num("10.0")),
         Call("printf", <<PString("..."), Ref("n"),
                          Call("add", <<Ref("n"), Num("1.0")>>)>>)>>)
\* (@fn fib[n] (@if (== n 0.0) 0.0 (@if (== n 1.0) 1.0
\*                                     (+ (fib (- n 1.0)) (fib (- n 2.0))))))
FnFib ==
    Fn("fib", <<"n">>,
       <<Macro("if",
           <<Call("==", <<Ref("n"), Num("0.0")>>),
             Num("0.0"),
             Macro("if",
               <<Call("==", <<Ref("n"), Num("1.0")>>),
                 Num("1.0"),
                 Call("+",
                   <<Call("fib", <<Call("-", <<Ref("n"), Num("1.0")>>)>>),
                     Call("fib", <<Call("-", <<Ref("n"), Num("2.0")>>)>>)>>)>>)>>)>>)
\* (@fn f[a] (g a)) and (@fn g[a] (f (g a))): each calls the other
FnF == Fn("f", <<"a">>, <<Call("g", <<Ref("a")>>)>>)
FnG == Fn("g", <<"a">>, <<Call("f", <<Call("g", <<Ref("a")>>)>>)>>)
\* (@fn h[g] (g 1.0)): the parameter shadows the function g
FnH == Fn("h", <<"g">>, <<Call("g", <<Num("1.0")>>)>>)
\* (@fn p[a] (@set a 2.0) (@set a (+ a 1.0)) a)
FnP ==
    Fn("p", <<"a">>,
       <<Set("a", Num("2.0")),
         Set("a", Call("+", <<Ref("a"), Num("1.0")>>)),
         Ref("a")>>)
\* (@fn outer[] (@fn inner[] 1.0) 2.0)
FnOuter == Fn("outer", <<>>, <<Fn("inner", <<>>, <<Num("1.0")>>), Num("2.0")>>)
\* (printf "..." (@fn k[] 1.0))
CallWithFn == Call("printf", <<PString("..."), Fn("k", <<>>, <<Num("1.0")>>)>>)
\* (@set f f)
SetAlias == Set("f", Ref("f"))
\* (@set x (+ 1.0 2.0)) and (@set x (+ x 1.0))
SetX == Set("x", Call("+", <<Num("1.0"), Num("2.0")>>))
SetXAgain == Set("x", Call("+", <<Ref("x"), Num("1.0")>>))
\* (f 1.0)
CallF == Call("f", <<Num("1.0")>>)
\* (add 1.0 2.0)
CallAdd == Call("add", <<Num("1.0"), Num("2.0")>>)

\* (printf "..." (@set n 1.0)) and (@fn w[] (printf "..." (@set n 1.0)))
CallSetArg == Call("printf", <<PString("..."), Set("n", Num("1.0"))>>)
FnW == Fn("w", <<>>, <<CallSetArg>>)
\* (@fn q) and (@set x)
BadFn == Macro("fn", <<Ref("q")>>)
BadSet == Macro("set", <<Ref("x")>>)
\* (@fn s[] (@set v 1.0) v)
FnSet == Fn("s", <<>>, <<Set("v", Num("1.0")), Ref("v")>>)

TopForms ==
    {FnAdd, FnMain, FnFib, FnF, FnG, FnH, FnP, FnOuter, CallWithFn, SetAlias,
     SetX, SetXAgain, CallF, CallSetArg, FnW, BadFn, BadSet, FnSet, CallAdd}

\* the programs: every sequence of at most MaxForms top-level forms
Programs == UNION {[1..k -> TopForms] : k \in 0..MaxForms}

\* ------------------------------------------------ Interpreter::interpret
Running == [st |-> "running", msg |-> "", pos |-> FALSE, name |-> "", detail |-> <<>>,
            at |-> ""]
\* what interpret returned (or the panic that ended it); at: the function
\* whose body pass 2 was lowering, "" otherwise
Returned(r, at) ==
    [st |-> r.st, msg |-> r.msg, pos |-> r.pos, name |-> r.name, detail |-> r.detail,
     at |-> at]
ReturnedOk == [Running EXCEPT !.st = "ok"]

\* Interpreter::new
Init ==
    /\ prog \in Programs
    /\ scopes = <<[parent |-> 0, bindings |-> NativeFns]>>
    /\ borrowed = {}
    /\ pc = "pass1"
    /\ idx = 1
    /\ todo = {}
    /\ new_functions = EmptyBindings
    /\ result = Running

\* pass 1 going on to the next form after a form that failed
Pass1Step_continuing ==
    /\ pc = "pass1"
    /\ idx <= Len(prog)
    /\ LET r == interpret_ast(prog[idx], 1, scopes, borrowed)
       IN  /\ scopes' = r.sc
           /\ idx' = idx + 1
           /\ UNCHANGED <<pc, result>>
    /\ UNCHANGED <<borrowed, prog, todo, new_functions>>

\* interpret: for ast in ast { self.interpret_ast(ast, &self.scope.clone())?; }
Pass1Step ==
    /\ pc = "pass1"
    /\ idx <= Len(prog)
    /\ LET r == interpret_ast(prog[idx], 1, scopes, borrowed)
       IN  /\ scopes' = r.sc
           /\ IF r.st = "ok"
              THEN idx' = idx + 1 /\ UNCHANGED <<pc, result>>
              ELSE pc' = "done" /\ result' = Returned(r, "") /\ UNCHANGED idx
    /\ UNCHANGED <<borrowed, prog, todo, new_functions>>

\* the names bound to an UnItpedFunction in scope s
Placeholders(sc, s) ==
    {n \in DOMAIN sc[s].bindings : sc[s].bindings[n][1] = "UnItpedFunction"}

\* pass 2 starting with no binding to stop at
Pass2Begin_skipping ==
    /\ pc = "pass1"
    /\ idx > Len(prog)
    /\ pc' = "pass2"
    /\ borrowed' = {1}
    /\ todo' = {}
    /\ new_functions' = EmptyBindings
    /\ UNCHANGED <<scopes, prog, idx, result>>

\* interpret_uninterpreted_functions: the for loop starts and borrows the
\* global scope; the bindings it will stop at are the UnItpedFunction ones
Pass2Begin ==
    /\ pc = "pass1"
    /\ idx > Len(prog)
    /\ pc' = "pass2"
    /\ borrowed' = {1}
    /\ todo' = Placeholders(scopes, 1)
    /\ new_functions' = EmptyBindings
    /\ UNCHANGED <<scopes, prog, idx, result>>

RECURSIVE set_params(_, _, _, _)
\* new_scope.borrow_mut().set(name, Param(i, ty))? for each parameter from k
set_params(parameters, k, s, sc) ==
    IF k > Len(parameters) THEN OpOk(sc)
    ELSE LET r == set(sc, s, parameters[k][1], VParam(k - 1, parameters[k][2]))
         IN  IF r.st = "ok" THEN set_params(parameters, k + 1, s, r.sc) ELSE r

\* one iteration of the loop: the body of the placeholder bound to name
lower_function(name, sc, brw) ==
    LET value == sc[1].bindings[name]
        sc1 == new_child(sc, 1)
        new_scope == Len(sc1)
        ps == set_params(value[3].parameters, 1, new_scope, sc1)
    IN  IF ps.st # "ok" THEN LowFromOp(ps)
        ELSE interpret_each(value[4], new_scope, ps.sc, brw)

\* the sweep writing each Function to the global scope as soon as its body
\* has lowered
Pass2Body_installing ==
    /\ pc = "pass2"
    /\ \E name \in todo :
          LET value == scopes[1].bindings[name]
              r == lower_function(name, scopes, borrowed)
              f == VFunction(value[2], value[3], r.nodes, value[5])
          IN  IF r.st = "ok"
              THEN /\ scopes' = [r.sc EXCEPT ![1].bindings = Insert(@, name, f)]
                   /\ new_functions' = Insert(new_functions, name, f)
                   /\ todo' = todo \ {name}
                   /\ UNCHANGED <<pc, result, borrowed>>
              ELSE /\ scopes' = r.sc
                   /\ pc' = "done"
                   /\ result' = Returned(r, name)
                   /\ borrowed' = {}
                   /\ UNCHANGED <<todo, new_functions>>
    /\ UNCHANGED <<prog, idx>>

\* the sweep visits the next binding, in the HashMap's order (any order)
Pass2Body ==
    /\ pc = "pass2"
    /\ \E name \in todo :
          LET value == scopes[1].bindings[name]
              r == lower_function(name, scopes, borrowed)
          IN  /\ scopes' = r.sc
              /\ IF r.st = "ok"
                 THEN /\ new_functions' =
                            Insert(new_functions, name,
                                   VFunction(value[2], value[3], r.nodes, value[5]))
                      /\ todo' = todo \ {name}
                      /\ UNCHANGED <<pc, result, borrowed>>
                 ELSE /\ pc' = "done"
                      /\ result' = Returned(r, name)
                      /\ borrowed' = {}
                      /\ UNCHANGED <<todo, new_functions>>
    /\ UNCHANGED <<prog, idx>>

\* the sweep is over: the borrow of the global scope ends
Pass2End ==
    /\ pc = "pass2"
    /\ todo = {}
    /\ pc' = "install"
    /\ borrowed' = {}
    /\ todo' = DOMAIN new_functions
    /\ UNCHANGED <<scopes, prog, idx, new_functions, result>>

\* self.scope.borrow_mut().replace(name, Rc::new(value))
install(name, value, sc, brw) == borrow_mut(sc, brw, 1, replace(sc, brw, 1, name, value))

\* for (name, value) in new_functions { ..replace(name, value)?; }
Install ==
    /\ pc = "install"
    /\ \E name \in todo :
          LET r == install(name, new_functions[name], scopes, borrowed)
          IN  /\ scopes' = r.sc
              /\ IF r.st = "ok"
                 THEN todo' = todo \ {name} /\ UNCHANGED <<pc, result>>
                 ELSE /\ pc' = "done"
                      /\ result' = Returned(LowFromOp(r), "")
                      /\ UNCHANGED todo
    /\ UNCHANGED <<borrowed, prog, idx, new_functions>>

\* Ok(())
Finish ==
    /\ pc = "install"
    /\ todo = {}
    /\ pc' = "done"
    /\ result' = ReturnedOk
    /\ UNCHANGED <<scopes, borrowed, prog, idx, todo, new_functions>>

Next ==
    \/ Pass1Step
    \/ Pass2Begin
    \/ Pass2Body
    \/ Pass2End
    \/ Install
    \/ Finish

Spec == Init /\ [][Next]_vars

\* interpret is a plain sequential function: it keeps taking its next step
\* until it returns. Next is enabled exactly in the states with pc # "done"
\* and every step of Next changes vars, so this is weak fairness of Next
\* written out from its definition, (infinitely often disabled) or
\* (infinitely often taken)
FairSpec == Spec /\ ([]<>(pc = "done") \/ []<><<Next>>_vars)

\* ------------------------------------------- properties of the scope tree
\* The scopes from s up to the root, s first
RECURSIVE Path(_, _)
Path(sc, s) == IF s = 0 THEN <<>> ELSE <<s>> \o Path(sc, sc[s].parent)

\* Positions on the path from s whose scope has name in its local bindings
HolderPositions(sc, s, name) ==
    {i \in 1..Len(Path(sc, s)) : name \in DOMAIN sc[Path(sc, s)[i]].bindings}

\* The nearest scope on the path from s that holds name; 0 when none does
Nearest(sc, s, name) ==
    LET H == HolderPositions(sc, s, name)
    IN  IF H = {} THEN 0
        ELSE Path(sc, s)[CHOOSE i \in H : \A j \in H : i <= j]

\* sc with the binding of name in scope t set to value, nothing else touched
Written(sc, t, name, value) ==
    [u \in 1..Len(sc) |->
        [parent |-> sc[u].parent,
         bindings |-> IF u = t THEN Insert(sc[u].bindings, name, value)
                      ELSE sc[u].bindings]]

\* C5: from every scope s and for every name n, lookup returns the binding of
\* the nearest scope on the path from s to the root that holds n locally
\* (innermost wins), and none exactly when no scope on the path holds n.
C5_LookupNearest ==
    \A s \in 1..Len(scopes), n \in ScopeNames :
        LET t == Nearest(scopes, s, n)
        IN  get(scopes, s, n) = IF t = 0 THEN <<>> ELSE <<scopes[t].bindings[n]>>

\* a lookup that has to choose: two scopes of the chain hold the name with
\* different bindings, and a lookup elsewhere finds none
C5_Witness ==
    \E s \in 1..Len(scopes), n \in ScopeNames :
        /\ Cardinality(HolderPositions(scopes, s, n)) >= 2
        /\ \E i, j \in HolderPositions(scopes, s, n) :
              scopes[Path(scopes, s)[i]].bindings[n] # scopes[Path(scopes, s)[j]].bindings[n]
        /\ get(scopes, s, n) = <<scopes[Nearest(scopes, s, n)].bindings[n]>>
        /\ \E m \in ScopeNames : get(scopes, s, m) = <<>>

\* C6: define (Scope::set) looks at the local bindings only: with the name
\* absent locally it succeeds, adds exactly that binding to the scope and
\* changes no other scope, whatever the ancestors hold; with the name present
\* locally it fails with AlreadyDefined and changes nothing.
C6_DefineLocalOnly ==
    \A s \in 1..Len(scopes), n \in ScopeNames, v \in ScopeValues :
        CurrentScope(s) =>
            LET r == borrow_mut(scopes, borrowed, s, set(scopes, s, n, v))
            IN  IF n \in DOMAIN scopes[s].bindings
                THEN r.st = "err" /\ r.msg = MsgAlreadyDefined /\ r.sc = scopes
                ELSE /\ r.st = "ok"
                     /\ Len(r.sc) = Len(scopes)
                     /\ DOMAIN r.sc[s].bindings = DOMAIN scopes[s].bindings \cup {n}
                     /\ r.sc[s].bindings[n] = v
                     /\ \A m \in DOMAIN scopes[s].bindings :
                           r.sc[s].bindings[m] = scopes[s].bindings[m]
                     /\ r.sc[s].parent = scopes[s].parent
                     /\ \A u \in 1..Len(scopes) : u # s => r.sc[u] = scopes[u]

\* a define that succeeds although an ancestor holds the name, and a define
\* of a locally present name that fails
C6_Witness ==
    /\ \E s \in 1..Len(scopes), n \in ScopeNames, v \in ScopeValues :
          /\ CurrentScope(s)
          /\ n \notin DOMAIN scopes[s].bindings
          /\ Nearest(scopes, s, n) # 0
          /\ set(scopes, s, n, v).st = "ok"
    /\ \E s \in 1..Len(scopes), n \in ScopeNames, v \in ScopeValues :
          /\ CurrentScope(s)
          /\ n \in DOMAIN scopes[s].bindings
          /\ set(scopes, s, n, v).msg = MsgAlreadyDefined

\* C7: replace of a name that no scope from s to the root holds fails with
\* NotDefined and changes no scope.
C7_ReplaceAbsentNotDefined ==
    \A s \in 1..Len(scopes), n \in ScopeNames, v \in ScopeValues :
        (CurrentScope(s) /\ Nearest(scopes, s, n) = 0) =>
            LET r == borrow_mut(scopes, borrowed, s, replace(scopes, borrowed, s, n, v))
            IN  r.st = "err" /\ r.msg = MsgNotDefined /\ r.sc = scopes

\* C7 with no borrow of an ancestor outstanding
C7_WhenNotBorrowed ==
    \A s \in 1..Len(scopes), n \in ScopeNames, v \in ScopeValues :
        (borrowed = {} /\ Nearest(scopes, s, n) = 0) =>
            LET r == replace(scopes, borrowed, s, n, v)
            IN  r.st = "err" /\ r.msg = MsgNotDefined /\ r.sc = scopes

\* C8: a successful replace writes the binding of the name in the nearest
\* scope that held it and in no other: every other name, every other scope
\* (farther holders of the name included) and every set of bound names is as
\* it was.
C8_ReplaceFrame ==
    \A s \in 1..Len(scopes), n \in ScopeNames, v \in ScopeValues :
        CurrentScope(s) =>
            LET r == borrow_mut(scopes, borrowed, s, replace(scopes, borrowed, s, n, v))
                t == Nearest(scopes, s, n)
            IN  r.st = "ok" =>
                  /\ t # 0
                  /\ Len(r.sc) = Len(scopes)
                  /\ \A u \in 1..Len(scopes) :
                        /\ r.sc[u].parent = scopes[u].parent
                        /\ DOMAIN r.sc[u].bindings = DOMAIN scopes[u].bindings
                        /\ \A m \in DOMAIN scopes[u].bindings :
                              r.sc[u].bindings[m] =
                                  IF u = t /\ m = n THEN v ELSE scopes[u].bindings[m]

\* a replace from a scope that does not hold the name, which overwrites a
\* different binding in an ancestor while a farther ancestor holds the name too
C8_Witness ==
    \E s \in 1..Len(scopes), n \in ScopeNames, v \in ScopeValues :
        /\ CurrentScope(s)
        /\ Nearest(scopes, s, n) \notin {0, s}
        /\ Cardinality(HolderPositions(scopes, s, n)) >= 2
        /\ scopes[Nearest(scopes, s, n)].bindings[n] # v
        /\ replace(scopes, borrowed, s, n, v).st = "ok"

\* C9: a replace whose binding differs in type from the binding of the
\* nearest holder is rejected with an error and changes no scope, whatever a
\* farther ancestor holds.
C9_ReplaceTypeMismatchRejected ==
    \A s \in 1..Len(scopes), n \in ScopeNames, v \in ScopeValues :
        LET t == Nearest(scopes, s, n)
        IN  (/\ CurrentScope(s)
             /\ t # 0
             /\ ItpValue_get_type(scopes[IF t = 0 THEN s ELSE t].bindings[n])
                   # ItpValue_get_type(v)) =>
                LET r == borrow_mut(scopes, borrowed, s,
                                    replace(scopes, borrowed, s, n, v))
                IN  r.st = "err" /\ r.msg = MsgDifferentType /\ r.sc = scopes

\* C9 with no borrow of an ancestor outstanding
C9_WhenNotBorrowed ==
    \A s \in 1..Len(scopes), n \in ScopeNames, v \in ScopeValues :
        LET t == Nearest(scopes, s, n)
        IN  (/\ borrowed = {}
             /\ t # 0
             /\ ItpValue_get_type(scopes[IF t = 0 THEN s ELSE t].bindings[n])
                   # ItpValue_get_type(v)) =>
                LET r == replace(scopes, borrowed, s, n, v)
                IN  r.st = "err" /\ r.msg = MsgDifferentType /\ r.sc = scopes

\* C10: define_or_replace writes the nearest holder when some scope of the
\* chain holds the name (with a binding of the same type), defines the name
\* locally when none does, and so a second define_or_replace of the same name
\* with a same-typed value from the same scope succeeds as well.
C10_DefineOrReplace ==
    \A s \in 1..Len(scopes), n \in ScopeNames, v \in ScopeValues, w \in ScopeValues :
        LET t == Nearest(scopes, s, n)
            r == borrow_mut(scopes, borrowed, s,
                            set_or_replace(scopes, borrowed, s, n, v))
        IN  CurrentScope(s) =>
              /\ t = 0 => r.st = "ok" /\ r.sc = Written(scopes, s, n, v)
              /\ (t # 0 /\ ItpValue_get_type(scopes[IF t = 0 THEN s ELSE t].bindings[n])
                              = ItpValue_get_type(v)) =>
                    r.st = "ok" /\ r.sc = Written(scopes, t, n, v)
              /\ (r.st = "ok" /\ ItpValue_get_type(w) = ItpValue_get_type(v)) =>
                    LET r2 == borrow_mut(r.sc, borrowed, s,
                                         set_or_replace(r.sc, borrowed, s, n, w))
                    IN  r2.st = "ok" /\ r2.sc = Written(r.sc, Nearest(r.sc, s, n), n, w)

\* C10 with no borrow of an ancestor outstanding
C10_WhenNotBorrowed ==
    borrowed = {} => C10_DefineOrReplace

\* ---------------------------------------------- properties of the resolver
Global == scopes[1].bindings

\* a top-level (@fn name [params] body...) form, its name and its parameters
IsFnForm(ast) ==
    /\ ast[1] = "Call"
    /\ ast[2] = Mac("fn")
    /\ Len(ast[3]) >= 2
    /\ ast[3][1][1] = "Identifier"
    /\ ast[3][2][1] = "Array"
FnName(ast) == ast[3][1][2][1]
FnSignature(ast) == ItpFunctionParameters(<<>>, fn_args(ast[3][2][2]).list, FALSE)

RECURSIVE CallsOf(_, _), CallsOfEach(_, _)
\* how many Call nodes naming g the typed node n holds
CallsOf(n, g) ==
    CASE n[1] = "Call" -> (IF n[2][1] = g THEN 1 ELSE 0) + CallsOfEach(n[3], g)
      [] n[1] = "Array" -> CallsOfEach(n[2], g)
      [] n[1] = "SetVariable" -> CallsOf(n[3], g)
      [] n[1] = "Conditional" -> CallsOf(n[2], g) + CallsOf(n[3], g) + CallsOf(n[4], g)
      [] n[1] = "Loop" -> CallsOf(n[2], g) + CallsOf(n[3], g)
      [] OTHER -> 0
CallsOfEach(ns, g) ==
    IF ns = <<>> THEN 0 ELSE CallsOf(Head(ns), g) + CallsOfEach(Tail(ns), g)

RECURSIVE CallNodes(_), CallNodesEach(_)
\* the Call nodes the typed node n holds, outermost first
CallNodes(n) ==
    CASE n[1] = "Call" -> <<n>> \o CallNodesEach(n[3])
      [] n[1] = "Array" -> CallNodesEach(n[2])
      [] n[1] = "SetVariable" -> CallNodes(n[3])
      [] n[1] = "Conditional" -> CallNodes(n[2]) \o CallNodes(n[3]) \o CallNodes(n[4])
      [] n[1] = "Loop" -> CallNodes(n[2]) \o CallNodes(n[3])
      [] OTHER -> <<>>
CallNodesEach(ns) ==
    IF ns = <<>> THEN <<>> ELSE CallNodes(Head(ns)) \o CallNodesEach(Tail(ns))

RECURSIVE RawCallsOf(_, _), RawCallsOfEach(_, _)
\* how many calls of the variable g the parsed node holds outside the bodies
\* of nested fn forms (which fn stores unlowered)
RawCallsOf(ast, g) ==
    CASE ast[1] = "Call" ->
           IF ast[2] = Mac("fn") THEN 0
           ELSE (IF ast[2] = Var(g) THEN 1 ELSE 0) + RawCallsOfEach(ast[3], g)
      [] ast[1] = "Array" -> RawCallsOfEach(ast[2], g)
      [] OTHER -> 0
RawCallsOfEach(asts, g) ==
    IF asts = <<>> THEN 0 ELSE RawCallsOf(Head(asts), g) + RawCallsOfEach(Tail(asts), g)

RECURSIVE FnNamesIn(_), FnNamesInEach(_)
\* the names that fn forms inside the parsed node declare
FnNamesIn(ast) ==
    CASE ast[1] = "Call" ->
           (IF IsFnForm(ast) THEN {FnName(ast)} ELSE {}) \cup FnNamesInEach(ast[3])
      [] ast[1] = "Array" -> FnNamesInEach(ast[2])
      [] OTHER -> {}
FnNamesInEach(asts) ==
    IF asts = <<>> THEN {} ELSE FnNamesIn(Head(asts)) \cup FnNamesInEach(Tail(asts))

\* inside the body of the placeholder f, the name g does not denote the
\* global binding: a parameter or a nested fn of f has that name
Shadowed(f, g) ==
    \/ \E i \in 1..Len(Global[f][3].parameters) : Global[f][3].parameters[i][1] = g
    \/ g \in FnNamesInEach(Global[f][4])

\* C1: when interpret has returned Ok, the global scope holds no
\* UnItpedFunction, every top-level fn form's name is bound to a Function with
\* the declared name, parameters and return type, and no install fails the
\* type check of replace.
C1_PlaceholdersBecomeFunctions ==
    /\ (pc = "done" /\ result.st = "ok") =>
          /\ Placeholders(scopes, 1) = {}
          /\ \A i \in 1..Len(prog) :
                IsFnForm(prog[i]) =>
                   /\ FnName(prog[i]) \in DOMAIN Global
                   /\ Global[FnName(prog[i])][1] = "Function"
                   /\ Global[FnName(prog[i])][2] = FnName(prog[i])
                   /\ Global[FnName(prog[i])][3] = FnSignature(prog[i])
                   /\ Global[FnName(prog[i])][5] = TFloat
    /\ pc = "install" =>
          \A name \in todo :
              install(name, new_functions[name], scopes, borrowed).st = "ok"

\* C1 for the placeholders the sweep of pass 2 found: none is left when
\* interpret returns Ok, each is then a Function of the same signature, and
\* no install fails
C1_SweptPlaceholdersBecomeFunctions ==
    /\ (pc = "done" /\ result.st = "ok") =>
          /\ Placeholders(scopes, 1) = {}
          /\ \A n \in DOMAIN new_functions :
                Global[n][1] = "Function" /\ Global[n] = new_functions[n]
    /\ pc \in {"pass2", "install"} =>
          \A n \in DOMAIN new_functions :
              /\ new_functions[n][1] = "Function"
              /\ n \in todo \/ pc = "pass2" =>
                    /\ Global[n][1] = "UnItpedFunction"
                    /\ new_functions[n][2] = Global[n][2]
                    /\ new_functions[n][3] = Global[n][3]
                    /\ new_functions[n][5] = Global[n][5]
                    /\ install(n, new_functions[n], scopes, {}).st = "ok"

\* C2: in pass 2 a call from the body of a function f to a name g that the
\* global scope binds to a placeholder (g declared before f, after f, or f
\* itself; g not shadowed inside f) resolves: the lowering never fails with
\* function-not-found or not-a-function at it, every such call of the source
\* body is a Call node of the lowered body, and each of these nodes carries
\* the return type and fits the parameters g was declared with, while the
\* binding of g is still the unlowered placeholder.  The body of the
\* recursive fib lowers to a Function with two Call nodes naming fib.
C2_ForwardCalls ==
    /\ (pc = "done" /\ result.at # ""
          /\ result.msg \in {"Function not found", "is not a function"}) =>
          ~(/\ result.name \in Placeholders(scopes, 1)
            /\ ~Shadowed(result.at, result.name))
    /\ pc = "pass2" =>
          /\ todo \cup DOMAIN new_functions = Placeholders(scopes, 1)
          /\ \A f \in DOMAIN new_functions, g \in Placeholders(scopes, 1) :
                ~Shadowed(f, g) =>
                   /\ CallsOfEach(new_functions[f][4], g) = RawCallsOfEach(Global[f][4], g)
                   /\ LET calls == CallNodesEach(new_functions[f][4])
                      IN  \A k \in 1..Len(calls) :
                             calls[k][2][1] = g =>
                                /\ calls[k][4] = Global[g][5]
                                /\ check_params(Global[g][3],
                                       [i \in 1..Len(calls[k][3]) |->
                                           ItpAst_get_type(calls[k][3][i])])[1] = "Ok"
    /\ (prog = <<FnFib>> /\ pc = "done") =>
          /\ result.st = "ok"
          /\ Global["fib"][1] = "Function"
          /\ CallsOfEach(Global["fib"][4], "fib") = 2

\* the body of f is lowered and calls g, whose fn form comes later in the
\* source and whose body the sweep has not lowered yet
C2_Witness ==
    /\ pc = "pass2"
    /\ \E f \in DOMAIN new_functions, g \in todo :
          /\ CallsOfEach(new_functions[f][4], g) >= 1
          /\ \E i, j \in 1..Len(prog) :
                /\ i < j
                /\ IsFnForm(prog[i]) /\ FnName(prog[i]) = f
                /\ IsFnForm(prog[j]) /\ FnName(prog[j]) = g

\* C3: the end-to-end program (@fn add[a,b] (+ a b))
\* (@fn main[] (@set n 10.0) (printf "..." n (add n 1.0))) resolves: interpret
\* returns Ok and leaves add and main bound to Functions and printf to the
\* non-intrinsic NativeFunction.
C3_EndToEnd ==
    (prog = <<FnAdd, FnMain>> /\ pc = "done") =>
        /\ result.st = "ok"
        /\ Global["add"][1] = "Function"
        /\ Global["main"][1] = "Function"
        /\ Global["printf"][1] = "NativeFunction"
        /\ Global["printf"][5] = FALSE

\* C4: no scope other than the global scope ever holds an UnItpedFunction.
C4_PlaceholdersOnlyGlobal ==
    \A s \in 2..Len(scopes) : Placeholders(scopes, s) = {}

\* ------------------------------------------- one call lowered at top level
MaxArgs == 3

\* Interpreter.scope is a public field and Scope::set a public method: what
\* the embedding program has bound in the global scope next to the natives,
\* array variables and one more generic native (has: Array(T), T -> Bool)
EmbedderBindings ==
    [n \in {"has", "xs", "ys", "xss"} |->
        CASE n = "has" ->
               VNativeFunction(n,
                   ItpFunctionParameters(<<"T">>,
                       <<<<"array", TArray(TGeneric("T"))>>, <<"item", TGeneric("T")>>>>,
                       FALSE),
                   TBool, TRUE)
          [] n = "xs" -> VNamed(Var("xs"), TArray(TFloat))
          [] n = "ys" -> VNamed(Var("ys"), TArray(TString))
          [] n = "xss" -> VNamed(Var("xss"), TArray(TArray(TFloat)))]

CallEnv ==
    [n \in DOMAIN NativeFns \cup DOMAIN EmbedderBindings |->
        IF n \in DOMAIN NativeFns THEN NativeFns[n] ELSE EmbedderBindings[n]]

\* the heads and the argument expressions of the calls lowered
CallHeads == {"+", "==", "get", "printf", "has"}
ArgForms ==
    {Num("1.0"), PString("s"), Ref("xs"), Ref("ys"), Ref("xss"),
     Call("==", <<Num("1.0"), Num("1.0")>>),
     Call("printf", <<PString("s")>>),
     PArray(<<Num("1.0"), Num("2.0")>>),
     PArray(<<>>),
     Set("n", Num("1.0")),
     Ref("zz")}

CallPrograms ==
    {<<Call(h, args)>> :
        h \in CallHeads, args \in UNION {[1..k -> ArgForms] : k \in 0..MaxArgs}}

CallInit ==
    /\ prog \in CallPrograms
    /\ scopes = <<[parent |-> 0, bindings |-> CallEnv]>>
    /\ borrowed = {}
    /\ pc = "call"
    /\ idx = 1
    /\ todo = {}
    /\ new_functions = EmptyBindings
    /\ result = Running

\* self.interpret_ast(ast, &self.scope.clone()) on a call form
LowerCall ==
    /\ pc = "call"
    /\ LET r == interpret_ast(prog[idx], 1, scopes, borrowed)
       IN  /\ scopes' = r.sc
           /\ result' = r
    /\ pc' = "called"
    /\ UNCHANGED <<borrowed, prog, idx, todo, new_functions>>

CallNext == LowerCall

CallSpec == CallInit /\ [][CallNext]_vars

\* ------------------------------------------------- properties of one call
Called == pc = "called"
CallHead == prog[1][2][1]
CallArgs == prog[1][3]
Callee == CallEnv[CallHead]
Declared == [i \in 1..Len(Callee[3].parameters) |-> Callee[3].parameters[i][2]]
Variadic == Callee[3].variadic

\* what each argument expression stands for: the nodes it lowers to
Lowered(e) ==
    CASE e = Num("1.0") -> <<IConstant(PFloat("1.0"))>>
      [] e = PString("s") -> <<IConstant(PString("s"))>>
      [] e = Ref("xs") -> <<IVariable(Var("xs"), TArray(TFloat))>>
      [] e = Ref("ys") -> <<IVariable(Var("ys"), TArray(TString))>>
      [] e = Ref("xss") -> <<IVariable(Var("xss"), TArray(TArray(TFloat)))>>
      [] e = Call("==", <<Num("1.0"), Num("1.0")>>) ->
           <<ICall(Var("=="),
                   <<IConstant(PFloat("1.0")), IConstant(PFloat("1.0"))>>, TBool)>>
      [] e = Call("printf", <<PString("s")>>) ->
           <<ICall(Var("printf"), <<IConstant(PString("s"))>>, TVoid)>>
      [] e = PArray(<<Num("1.0"), Num("2.0")>>) ->
           <<IConstant(PFloat("1.0")), IConstant(PFloat("2.0"))>>
      [] e = PArray(<<>>) -> <<>>
      [] e = Set("n", Num("1.0")) ->
           <<ISetVariable(Var("n"), IConstant(PFloat("1.0")))>>

\* and the types of these nodes
TypesOf(e) ==
    CASE e = Num("1.0") -> <<TFloat>>
      [] e = PString("s") -> <<TString>>
      [] e = Ref("xs") -> <<TArray(TFloat)>>
      [] e = Ref("ys") -> <<TArray(TString)>>
      [] e = Ref("xss") -> <<TArray(TArray(TFloat))>>
      [] e = Call("==", <<Num("1.0"), Num("1.0")>>) -> <<TBool>>
      [] e = Call("printf", <<PString("s")>>) -> <<TVoid>>
      [] e = PArray(<<Num("1.0"), Num("2.0")>>) -> <<TFloat, TFloat>>
      [] e = PArray(<<>>) -> <<>>
      [] e = Set("n", Num("1.0")) -> <<TVoid>>

RECURSIVE LoweredAll(_), TypesOfAll(_)
LoweredAll(args) ==
    IF args = <<>> THEN <<>> ELSE Lowered(Head(args)) \o LoweredAll(Tail(args))
TypesOfAll(args) ==
    IF args = <<>> THEN <<>> ELSE TypesOf(Head(args)) \o TypesOfAll(Tail(args))

\* every argument of the call lowers (none names the unbound zz)
ArgsLower == \A i \in 1..Len(CallArgs) : CallArgs[i] # Ref("zz")
Actual == TypesOfAll(CallArgs)

\* the generics a declared type binds when matched against an actual type
RECURSIVE Match(_, _)
Match(d, a) ==
    CASE d[1] = "Generic" -> {<<d[2], a>>}
      [] d[1] = "Array" /\ a[1] = "Array" -> Match(d[2], a[2])
      [] OTHER -> {}

Bound == UNION {Match(Declared[i], Actual[i]) : i \in 1..Len(Declared)}

RECURSIVE Subst(_, _)
Subst(t, b) ==
    CASE t[1] = "Generic" ->
           IF \E p \in b : p[1] = t[2]
           THEN (CHOOSE p \in b : p[1] = t[2])[2]
           ELSE t
      [] t[1] = "Array" -> TArray(Subst(t[2], b))
      [] OTHER -> t

\* C11: the Call node of a successful call carries the callee's declared
\* return type with every generic bound by the call's unification replaced
\* by its concrete type; get on an Array(Float) has result type Float.
C11_ResultTypeSubstituted ==
    (Called /\ result.st = "ok") =>
        result.nodes =
           <<ICall(Var(CallHead), LoweredAll(CallArgs),
                   Subst(ReturnTypeOf(Callee), Bound))>>

\* what the Call node carries instead: the declared return type as written
C11_ResultTypeAsDeclared ==
    (Called /\ result.st = "ok") =>
        result.nodes =
           <<ICall(Var(CallHead), LoweredAll(CallArgs), ReturnTypeOf(Callee))>>

MsgWrongType == "Wrong type for parameter"

\* C12: unification is per call and left to right: == (T, T) called on
\* types (X, X) succeeds, also when an argument is itself a call of == that
\* bound T to another type; on (X, Y) with X # Y it fails with a type
\* mismatch at position 1 that refers to X, the type T is already bound to.
C12_GenericUnification ==
    (Called /\ CallHead = "==" /\ ArgsLower /\ Len(Actual) = 2) =>
        IF Actual[1] = Actual[2]
        THEN result.st = "ok"
        ELSE /\ result.st = "err"
             /\ result.msg = MsgWrongType
             /\ result.detail[1] = 1
             /\ Actual[1] \in {result.detail[2], result.detail[3]}

\* the mismatch as the code reports it: the generic by name and the second
\* actual type
C12_UnificationNamesGeneric ==
    (Called /\ CallHead = "==" /\ ArgsLower /\ Len(Actual) = 2) =>
        IF Actual[1] = Actual[2]
        THEN result.st = "ok"
        ELSE /\ result.st = "err"
             /\ result.msg = MsgWrongType
             /\ result.detail = <<1, TGeneric("T"), Actual[2]>>

\* the first position of a call of + whose actual type is not Float
FirstNonFloat == CHOOSE i \in 1..2 : Actual[i] # TFloat /\ \A j \in 1..(i - 1) : Actual[j] = TFloat

\* C13: a concrete declared type accepts only an equal actual type: + (Float,
\* Float) on two arguments succeeds exactly when both are Float; otherwise
\* it fails at the first mismatching zero-based position and the diagnostic
\* gives the actual type as "got" and the declared type as "expected".
C13_ConcreteExactMatch ==
    (Called /\ CallHead = "+" /\ ArgsLower /\ Len(Actual) = 2) =>
        IF Actual = <<TFloat, TFloat>>
        THEN result.st = "ok"
        ELSE /\ result.st = "err"
             /\ result.msg = MsgWrongType
             /\ result.detail =
                   <<FirstNonFloat - 1, Actual[FirstNonFloat], TFloat>>

\* the diagnostic as the code prints it: "got" the declared type, "expected"
\* the actual type
C13_ExactMatchSwappedDiagnostic ==
    (Called /\ CallHead = "+" /\ ArgsLower /\ Len(Actual) = 2) =>
        IF Actual = <<TFloat, TFloat>>
        THEN result.st = "ok"
        ELSE /\ result.st = "err"
             /\ result.msg = MsgWrongType
             /\ result.detail =
                   <<FirstNonFloat - 1, TFloat, Actual[FirstNonFloat]>>

\* C14: the arity of a call is the number of lowered argument nodes and is
\* checked before any type: fewer nodes than declared parameters is always
\* NotEnoughParameters, more is TooManyParameters exactly when the signature
\* is not variadic, whatever the argument types, and no Call node is made.
C14_ArityBeforeTypes ==
    (Called /\ ArgsLower) =>
        /\ Len(Actual) < Len(Declared) =>
              /\ result.st = "err"
              /\ result.msg = "Not enough parameters"
              /\ result.nodes = <<>>
        /\ (Len(Actual) > Len(Declared) /\ ~Variadic) =>
              /\ result.st = "err"
              /\ result.msg = "Too many parameters"
              /\ result.nodes = <<>>
        /\ result.msg = "Too many parameters" =>
              Len(Actual) > Len(Declared) /\ ~Variadic
        /\ result.msg = "Not enough parameters" => Len(Actual) < Len(Declared)

\* too many nodes (an array literal counts for its elements) of the wrong
\* type: the answer is the arity error
C14_Witness ==
    /\ Called /\ ArgsLower
    /\ Len(Actual) > Len(Declared) /\ Len(CallArgs) <= Len(Declared)
    /\ Actual[1] # Declared[1]
    /\ result.msg = "Too many parameters"

\* C15: Array(T) against Array(U) recurses into T against U under the call's
\* bindings: has (Array(T), T) and get (Array(T), Float) accept an array of
\* any element type, has then holds its second argument to that element
\* type, and a non-array first argument is a WrongType at position 0.
C15_ArrayRecursion ==
    (Called /\ CallHead \in {"get", "has"} /\ ArgsLower /\ Len(Actual) = 2) =>
        IF Actual[1][1] # "Array"
        THEN /\ result.st = "err"
             /\ result.msg = MsgWrongType
             /\ result.detail[1] = 0
        ELSE IF Actual[2] = (IF CallHead = "has" THEN Actual[1][2] ELSE TFloat)
        THEN result.st = "ok"
        ELSE /\ result.st = "err"
             /\ result.msg = MsgWrongType
             /\ result.detail[1] = 1

\* T was bound through the array (of arrays), and the second argument is of
\* another type
C15_Witness ==
    /\ Called
    /\ CallHead = "has"
    /\ CallArgs = <<Ref("xss"), Ref("ys")>>
    /\ result.st = "err"
    /\ result.detail[1] = 1

\* C16: printf (variadic, one declared String parameter) accepts any further
\* arguments once the first is a String, whatever their types, and the Call
\* node holds all the lowered arguments unchanged and in order.
C16_VariadicExtrasUnchecked ==
    (Called /\ CallHead = "printf" /\ ArgsLower
        /\ Len(Actual) >= 1 /\ Actual[1] = TString) =>
        /\ result.st = "ok"
        /\ result.nodes = <<ICall(Var("printf"), LoweredAll(CallArgs), TVoid)>>

\* extra arguments of type Void and Array(Float)
C16_Witness ==
    /\ Called
    /\ CallHead = "printf"
    /\ ArgsLower
    /\ Len(Actual) = 3
    /\ Actual[2] = TVoid /\ Actual[3] = TArray(TFloat)
    /\ result.st = "ok"

\* ---------------------------------- more properties of the two-pass driver
\* the scopes whose parent is s
Children(s) == {c \in 1..Len(scopes) : scopes[c].parent = s}

\* C17: a call is lowered with one fresh child scope of the call-site scope
\* and its arguments in that child: after (printf "..." (@set n 1.0)), at
\* top level or as the body of a function, n (bound nowhere before) is bound
\* in the one child of the call-site scope and in no other scope, and the
\* call-site scope and its ancestors are as they were.
C17_CallArgumentScope ==
    /\ (pc = "done" /\ prog = <<CallSetArg>>) =>
          /\ result.st = "ok"
          /\ Global = NativeFns
          /\ Len(scopes) = 2
          /\ scopes[2] = [parent |-> 1,
                          bindings |-> Insert(EmptyBindings, "n", VNamed(Var("n"), TFloat))]
    /\ (pc = "done" /\ prog = <<FnW>>) =>
          /\ result.st = "ok"
          /\ DOMAIN Global = DOMAIN NativeFns \cup {"w"}
          /\ Len(scopes) = 3
          /\ scopes[2] = [parent |-> 1, bindings |-> EmptyBindings]
          /\ scopes[3] = [parent |-> 2,
                          bindings |-> Insert(EmptyBindings, "n", VNamed(Var("n"), TFloat))]

\* C17 for a call lowered at top level (pass 1), whatever its head and
\* arguments: the global scope is as before, and a set among the arguments
\* has bound n in the call's child scope
C17_TopLevelCallArgumentScope ==
    Called =>
        /\ Global = CallEnv
        /\ Len(scopes) >= 2 => scopes[2].parent = 1
        /\ (result.st = "ok" /\ \E i \in 1..Len(CallArgs) : CallArgs[i] = Set("n", Num("1.0"))) =>
              /\ Children(1) = {2}
              /\ scopes[2].bindings = Insert(EmptyBindings, "n", VNamed(Var("n"), TFloat))

\* the top-level forms after position i that declare a function no form up
\* to i declares
LaterFnNames(i) ==
    {FnName(prog[j]) : j \in {j \in (i + 1)..Len(prog) : IsFnForm(prog[j])}}
        \ {FnName(prog[j]) : j \in {j \in 1..i : IsFnForm(prog[j])}}

\* interpret has returned an error: none of the later forms was lowered and
\* pass 2 did not start (pass 1), or the sweep stopped at the placeholder
\* that failed and nothing was installed (pass 2)
C18_Stopped ==
    (pc = "done" /\ result.st = "err") =>
        IF result.at = ""
        THEN /\ idx <= Len(prog)
             /\ LaterFnNames(idx) \cap DOMAIN Global = {}
             /\ todo = {} /\ new_functions = EmptyBindings
        ELSE /\ result.at \in todo
             /\ result.at \notin DOMAIN new_functions
             /\ \A n \in DOMAIN Global : Global[n][1] # "Function"

\* a step of interpret: a failing top-level form ends pass 1 with its error,
\* the sweep goes on only past a placeholder whose body lowered and ends
\* with the error of the one whose body failed, and nothing follows the
\* return
C18_Step ==
    /\ (pc = "pass1" /\ idx <= Len(prog)) =>
          LET r == interpret_ast(prog[idx], 1, scopes, borrowed)
          IN  r.st = "err" =>
                 /\ pc' = "done"
                 /\ result' = Returned(r, "")
                 /\ idx' = idx
                 /\ todo' = {} /\ new_functions' = EmptyBindings
    /\ (pc = "pass2" /\ pc' = "pass2") =>
          \E name \in todo :
              /\ lower_function(name, scopes, borrowed).st = "ok"
              /\ todo' = todo \ {name}
    /\ (pc = "pass2" /\ pc' = "done") =>
          \E name \in todo :
              LET r == lower_function(name, scopes, borrowed)
              IN  /\ r.st # "ok"
                  /\ result' = Returned(r, name)
                  /\ todo' = todo /\ new_functions' = new_functions
    /\ pc # "done"

\* C18: resolution is fail-fast: a top-level form that fails in pass 1 makes
\* interpret return that error with no later form lowered and pass 2 not
\* started; a placeholder whose body fails in pass 2 stops the sweep and
\* interpret returns that error.
C18_FailFast == []C18_Stopped /\ [][C18_Step]_vars

\* pass 1 failed at a form that is not the last one
C18_Witness ==
    /\ pc = "done"
    /\ result.st = "err"
    /\ result.at = ""
    /\ idx < Len(prog)
    /\ LaterFnNames(idx) # {}

\* C19: every error interpret returns carries the line and column of the
\* node that caused it.
C19_ErrorsCarryPosition ==
    (pc = "done" /\ result.st = "err") => result.pos

\* the errors that do carry a position: those made with ParsedAst::error
C19_PositionedErrors ==
    (pc = "done" /\ result.st = "err") =>
        (result.pos <=>
            result.msg \in {"Variable not found", "Function not found",
                            "is not a function", "Macro not found",
                            "Macro not allowed here", "Type not allowed here",
                            "Not enough parameters", "Too many parameters",
                            MsgWrongType, "Expected identifier", "Expected array"})

\* an argument count the macro does not take
WrongCount(m, k) ==
    CASE m \in {"set", "while"} -> k # 2
      [] m = "if" -> k # 3
      [] m = "fn" -> k < 2

\* C20: a built-in macro given a wrong number of arguments returns an error
\* and leaves every scope unchanged; for no argument count does a macro
\* abort the resolver.
C20_MacroArityIsError ==
    /\ pc = "pass1" =>
          \A m \in MacroNames, k \in 0..(MaxArgs + 1) :
              WrongCount(m, k) =>
                  LET r == interpret_ast(Macro(m, [i \in 1..k |-> Ref("q")]),
                                         1, scopes, borrowed)
                  IN  r.st = "err" /\ r.sc = scopes
    /\ pc = "done" => result.st # "panic" \/ result.at # ""

\* C20 for set, if and while
C20_CheckedMacroArityIsError ==
    pc = "pass1" =>
        \A m \in MacroNames \ {"fn"}, k \in 0..(MaxArgs + 1) :
            WrongCount(m, k) =>
                LET r == interpret_ast(Macro(m, [i \in 1..k |-> Ref("q")]),
                                       1, scopes, borrowed)
                IN  r.st = "err" /\ r.sc = scopes

\* ------------------------------------------------- properties of the macros
\* values given to set, with the nodes each stands for
SetValueForms ==
    {Num("1.0"), PString("s"), Call("+", <<Num("1.0"), Num("2.0")>>),
     PArray(<<PString("s")>>), PArray(<<>>), PArray(<<Num("1.0"), Num("2.0")>>)}
SetValueNodes(v) ==
    CASE v = Num("1.0") -> <<IConstant(PFloat("1.0"))>>
      [] v = PString("s") -> <<IConstant(PString("s"))>>
      [] v = Call("+", <<Num("1.0"), Num("2.0")>>) ->
           <<ICall(Var("+"),
                   <<IConstant(PFloat("1.0")), IConstant(PFloat("2.0"))>>, TFloat)>>
      [] v = PArray(<<PString("s")>>) -> <<IConstant(PString("s"))>>
      [] v = PArray(<<>>) -> <<>>
      [] v = PArray(<<Num("1.0"), Num("2.0")>>) ->
           <<IConstant(PFloat("1.0")), IConstant(PFloat("2.0"))>>
SetValueType(v) ==
    IF v \in {PString("s"), PArray(<<PString("s")>>)} THEN TString ELSE TFloat

\* C21 at top level: (@set x value), x unbound or bound with the value's type
C21_SetAtTopLevel ==
    pc = "pass1" =>
        \A v \in SetValueForms :
            LET r == interpret_ast(Set("x", v), 1, scopes, borrowed)
                n == SetValueNodes(v)
                t == SetValueType(v)
            IN  IF Len(n) = 1
                THEN ("x" \notin DOMAIN Global \/ ItpValue_get_type(Global["x"]) = t) =>
                        /\ r.st = "ok"
                        /\ r.nodes = <<ISetVariable(Var("x"), n[1])>>
                        /\ ItpAst_get_type(r.nodes[1]) = TVoid
                        /\ get(r.sc, 1, "x") = <<VNamed(Var("x"), t)>>
                        /\ \A m \in DOMAIN Global \ {"x"} :
                               r.sc[1].bindings[m] = Global[m]
                ELSE /\ r.st = "err"
                     /\ r.msg = "Expected single value"
                     /\ r.sc = scopes

\* C21: set name value, value lowering to exactly one node v, returns the one
\* node SetVariable{name, v} (of type Void) and leaves name bound to
\* Named(name, type of v), which a later lookup from that scope yields; a
\* value of zero or several nodes makes set fail and bind nothing.  At top
\* level, and in the body of (@fn s[] (@set v 1.0) v).
C21_SetBindsNamed ==
    /\ C21_SetAtTopLevel
    /\ (pc = "done" /\ prog = <<FnSet>>) =>
          /\ result.st = "ok"
          /\ Global["s"] =
                VFunction("s", ItpFunctionParameters(<<>>, <<>>, FALSE),
                          <<ISetVariable(Var("v"), IConstant(PFloat("1.0"))),
                            IVariable(Var("v"), TFloat)>>,
                          TFloat)

\* C25: no step of the resolution mutably borrows a scope that has another
\* borrow outstanding: no lowering step of pass 2 reaches the global scope
\* with borrow_mut while the sweep iterates over its bindings.
C25_NoConflictingBorrow ==
    result.msg # "already borrowed: BorrowMutError"

\* the placeholder (@fn name [params] body...) stands for
FnPlaceholder(name, params, body) ==
    VUnItpedFunction(name,
        ItpFunctionParameters(<<>>, [i \in 1..Len(params) |-> <<params[i], TFloat>>], FALSE),
        body, TFloat)

\* C22: fn name [p1..pk] body... adds to the current scope, under name, an
\* UnItpedFunction with the parameters p1..pk in order, each Float, not
\* variadic, no generics, return type Float and the body as written (a body
\* that would not lower is stored all the same); it returns no node and
\* changes no other binding; when the current scope already holds name (a
\* native, an earlier fn) it fails with AlreadyDefined and changes nothing.
\* At top level for every name, parameter list and body of a small set, and
\* in the scope of a call's arguments.
C22_FnRegistersPlaceholder ==
    /\ pc = "pass1" =>
          \A name \in {"add", "printf", "z"},
             params \in {<<>>, <<"a">>, <<"b", "a">>},
             body \in {<<>>, <<Call("nosuch", <<Ref("b")>>)>>, <<Num("1.0"), Ref("a")>>} :
              LET r == interpret_ast(Fn(name, params, body), 1, scopes, borrowed)
              IN  IF name \in DOMAIN Global
                  THEN /\ r.st = "err"
                       /\ r.msg = MsgAlreadyDefined
                       /\ r.sc = scopes
                  ELSE /\ r.st = "ok"
                       /\ r.nodes = <<>>
                       /\ r.sc = [scopes EXCEPT ![1].bindings =
                                     Insert(@, name, FnPlaceholder(name, params, body))]
    /\ (prog = <<CallWithFn>> /\ idx = 2) =>
          /\ Global = NativeFns
          /\ scopes[2] = [parent |-> 1,
                          bindings |-> Insert(EmptyBindings, "k",
                                           FnPlaceholder("k", <<>>, <<Num("1.0")>>))]
    /\ (pc = "pass1" /\ idx = 2 /\ prog[1] = FnAdd) =>
          Global = Insert(NativeFns, "add",
                       FnPlaceholder("add", <<"a", "b">>,
                           <<Call("+", <<Ref("a"), Ref("b")>>)>>))

\* the second (@fn add ...) of a program has failed and the first one's
\* placeholder is kept
C22_Witness ==
    /\ pc = "done"
    /\ prog = <<FnAdd, FnAdd>>
    /\ result.st = "err"
    /\ result.msg = MsgAlreadyDefined
    /\ Global["add"] = FnPlaceholder("add", <<"a", "b">>,
                           <<Call("+", <<Ref("a"), Ref("b")>>)>>)

\* --------------------------------------- the type computations on their own
MaxElems == 3

RECURSIVE replace_generics(_, _)
\* ItpTypeValue::replace_generics; a Function's parameters are cloned as
\* they are
replace_generics(self, generics) ==
    CASE self[1] = "Generic" ->
           IF self[2] \in DOMAIN generics THEN generics[self[2]] ELSE self
      [] self[1] = "Array" -> TArray(replace_generics(self[2], generics))
      [] self[1] = "Function" ->
           TFunction(self[2], replace_generics(self[3], generics))
      [] OTHER -> self

\* constants and the element lists of arrays
ElemConstants == {PFloat("1.0"), PString("s"), <<"Bool", "true">>}
ElemLists(S) == UNION {[1..k -> S] : k \in 0..MaxElems}

\* a signature of the given parameter types
SigOf(types) ==
    ItpFunctionParameters(<<>>, [i \in 1..Len(types) |-> <<"p", types[i]>>], FALSE)

\* types given to replace_generics, and substitution maps
GenericTypes ==
    {TFloat, TGeneric("T"), TGeneric("U"),
     TArray(TGeneric("T")), TArray(TArray(TGeneric("U"))), TArray(TString),
     TFunction(SigOf(<<TFloat>>), TFloat),
     TFunction(SigOf(<<TGeneric("T")>>), TGeneric("T")),
     TFunction(SigOf(<<TArray(TGeneric("U")), TFloat>>), TArray(TGeneric("U"))),
     TArray(TFunction(SigOf(<<TGeneric("U")>>), TFloat))}
GenericMaps ==
    {EmptyBindings,
     Insert(EmptyBindings, "T", TFloat),
     Insert(Insert(EmptyBindings, "T", TString), "U", TArray(TFloat)),
     Insert(EmptyBindings, "U", TGeneric("T"))}

TypeInputs ==
    {<<"constant", <<"Array", vs>>>> :
        vs \in ElemLists({VConstant(c) : c \in ElemConstants})}
      \cup {<<"ast", IArray(ns)>> : ns \in ElemLists({IConstant(c) : c \in ElemConstants})}
      \cup {<<"type", t, m>> : t \in GenericTypes, m \in GenericMaps}

\* the type a computation returned, or that it panicked
Typed(t) == [st |-> IF t = TypePanic THEN "panic" ELSE "ok", type |-> t]

TypeInit ==
    /\ prog \in TypeInputs
    /\ pc = "type"
    /\ scopes = <<>>
    /\ borrowed = {}
    /\ idx = 0
    /\ todo = {}
    /\ new_functions = EmptyBindings
    /\ result = Running

\* ItpConstantValue::get_type on a constant array
ConstantGetType ==
    /\ pc = "type"
    /\ prog[1] = "constant"
    /\ result' = Typed(ItpConstantValue_get_type(prog[2]))
    /\ pc' = "typed"
    /\ UNCHANGED <<scopes, borrowed, prog, idx, todo, new_functions>>

\* ItpAst::get_type on an Array node
AstGetType ==
    /\ pc = "type"
    /\ prog[1] = "ast"
    /\ result' = Typed(ItpAst_get_type(prog[2]))
    /\ pc' = "typed"
    /\ UNCHANGED <<scopes, borrowed, prog, idx, todo, new_functions>>

\* ItpTypeValue::replace_generics
ReplaceGenerics ==
    /\ pc = "type"
    /\ prog[1] = "type"
    /\ result' = Typed(replace_generics(prog[2], prog[3]))
    /\ pc' = "typed"
    /\ UNCHANGED <<scopes, borrowed, prog, idx, todo, new_functions>>

TypeNext ==
    \/ ConstantGetType
    \/ AstGetType
    \/ ReplaceGenerics

TypeSpec == TypeInit /\ [][TypeNext]_vars

\* ---------------------------------------- properties of the computations
\* the type of a constant by its variant
ConstantType(c) ==
    CASE c[1] = "Float" -> TFloat
      [] c[1] = "String" -> TString
      [] c[1] = "Bool" -> TBool

\* the types of the elements of the array given
ElementTypes ==
    LET es == prog[2][2] IN {ConstantType(es[i][2]) : i \in 1..Len(es)}

\* C23: a constant array has type Array(T) exactly when all its elements
\* have the one type T; an array with elements of two or more types is
\* rejected and yields no type, by ItpConstantValue::get_type and by
\* ItpAst::get_type alike.
C23_ArrayHomogeneity ==
    (pc = "typed" /\ prog[1] \in {"constant", "ast"} /\ Len(prog[2][2]) >= 1) =>
        IF Cardinality(ElementTypes) = 1
        THEN result = Typed(TArray(CHOOSE t \in ElementTypes : TRUE))
        ELSE result.st # "ok"

\* what the two computations do: the constant one panics on mixed (and on
\* no) elements, the node one takes the type of the first element (Void for
\* none)
C23_FirstElementOrPanic ==
    /\ (pc = "typed" /\ prog[1] = "constant") =>
          IF Cardinality(ElementTypes) = 1
          THEN result = Typed(TArray(CHOOSE t \in ElementTypes : TRUE))
          ELSE result.st = "panic"
    /\ (pc = "typed" /\ prog[1] = "ast") =>
          /\ result.st = "ok"
          /\ result.type = TArray(IF prog[2][2] = <<>> THEN TVoid
                                  ELSE ConstantType(prog[2][2][1][2]))

RECURSIVE FullSubst(_, _)
\* the substitution through arrays, parameter types and return types
FullSubst(t, m) ==
    CASE t[1] = "Generic" -> IF t[2] \in DOMAIN m THEN m[t[2]] ELSE t
      [] t[1] = "Array" -> TArray(FullSubst(t[2], m))
      [] t[1] = "Function" ->
           TFunction([t[2] EXCEPT !.parameters =
                         [i \in 1..Len(t[2].parameters) |->
                             <<t[2].parameters[i][1], FullSubst(t[2].parameters[i][2], m)>>]],
                     FullSubst(t[3], m))
      [] OTHER -> t

\* C24: replace_generics(m) replaces every Generic(g) with g bound in m by
\* m[g], through Array element types and through the parameter types and
\* the return type of Function signatures, and leaves everything else as it
\* is.
C24_ReplaceGenericsEverywhere ==
    (pc = "typed" /\ prog[1] = "type") =>
        result = Typed(FullSubst(prog[2], prog[3]))

RECURSIVE HasFunction(_)
HasFunction(t) ==
    CASE t[1] = "Function" -> TRUE
      [] t[1] = "Array" -> HasFunction(t[2])
      [] OTHER -> FALSE

\* C24 for the types without a Function signature in them
C24_ReplaceGenericsOutsideSignatures ==
    (pc = "typed" /\ prog[1] = "type" /\ ~HasFunction(prog[2])) =>
        result = Typed(FullSubst(prog[2], prog[3]))

\* -------------------------------------------------- properties of pass 2
\* the names the global scope binds to a lowered Function
Functions(sc) == {n \in DOMAIN sc[1].bindings : sc[1].bindings[n][1] = "Function"}
ChildrenIn(sc, s) == {c \in 1..Len(sc) : sc[c].parent = s}

\* the sweep's bookkeeping: each placeholder found at the start is either
\* still to visit or lowered, never both; the functions installed are the
\* placeholders found
C26_Swept ==
    /\ pc = "pass2" =>
          /\ todo \cap DOMAIN new_functions = {}
          /\ todo \cup DOMAIN new_functions = Placeholders(scopes, 1)
    /\ pc = "install" =>
          /\ DOMAIN new_functions = Placeholders(scopes, 1) \cup Functions(scopes)
          /\ todo = Placeholders(scopes, 1)
    /\ (pc = "done" /\ result.st = "ok") =>
          /\ Placeholders(scopes, 1) = {}
          /\ Functions(scopes) = DOMAIN new_functions

\* one visit of the sweep: one placeholder leaves todo for good, its body was
\* lowered in the one new child scope of the global scope, where parameter i
\* was bound to Param(i, type) (the body may have set it since), and the
\* placeholders of the global scope are the same
C26_Visit ==
    (pc = "pass2" /\ pc' = "pass2") =>
        \E name \in todo :
            LET c == Len(scopes) + 1
                ps == Global[name][3].parameters
            IN  /\ todo' = todo \ {name}
                /\ DOMAIN new_functions' = DOMAIN new_functions \cup {name}
                /\ Len(scopes') >= c
                /\ ChildrenIn(scopes', 1) = ChildrenIn(scopes, 1) \cup {c}
                /\ \A i \in 1..Len(ps) :
                      /\ ps[i][1] \in DOMAIN scopes'[c].bindings
                      /\ scopes'[c].bindings[ps[i][1]] \in
                            {VParam(i - 1, ps[i][2]), VNamed(Var(ps[i][1]), ps[i][2])}
                /\ Placeholders(scopes', 1) = Placeholders(scopes, 1)
                /\ scopes'[1] = scopes[1]

\* C26: pass 2 is one sweep and ends: every placeholder the global scope
\* holds when it starts has its body lowered once, in a fresh child scope of
\* the global scope with parameter i bound to Param(i, declared type), and
\* as many Functions are installed as there were placeholders.
C26_OneSweep == []C26_Swept /\ [][C26_Visit]_vars /\ <>(pc = "done")

\* add was lowered with a and b as Param 0 and Param 1, and installed
C26_Witness ==
    /\ pc = "done"
    /\ result.st = "ok"
    /\ Cardinality(Functions(scopes)) = 2
    /\ "add" \in Functions(scopes)
    /\ Global["add"][4] =
          <<ICall(Var("+"), <<IParam(0, Var("a"), TFloat), IParam(1, Var("b"), TFloat)>>,
                  TFloat)>>

\* C27: the Functions are written to the global scope only after every body
\* has lowered: while the sweep runs, and when interpret returns because a
\* body failed, every placeholder is still an UnItpedFunction and the global
\* scope holds no Function.
C27_AllOrNothing ==
    /\ (pc = "pass2" \/ (pc = "done" /\ result.at # "")) =>
          /\ Functions(scopes) = {}
          /\ \A n \in todo \cup DOMAIN new_functions :
                n \in DOMAIN Global /\ Global[n][1] = "UnItpedFunction"
    /\ (pc = "done" /\ result.at # "") => result.st # "ok"
    /\ Functions(scopes) # {} => pc \in {"install", "done"} /\ result.at = ""

\* a body failed after another one had lowered
C27_Witness ==
    /\ pc = "done"
    /\ result.st = "err"
    /\ result.at # ""
    /\ DOMAIN new_functions # {}
    /\ \A n \in DOMAIN new_functions : Global[n][1] = "UnItpedFunction"

\* ------------------------------------- set_or_replace and a change of type
\* C28: set_or_replace of a name whose nearest holder binds it with another
\* type is rejected with an error, defines nothing locally and changes no
\* scope.
C28_SetOrReplaceTypeMismatchRejected ==
    \A s \in 1..Len(scopes), n \in ScopeNames, v \in ScopeValues :
        LET t == Nearest(scopes, s, n)
        IN  (/\ CurrentScope(s)
             /\ t # 0
             /\ ItpValue_get_type(scopes[IF t = 0 THEN s ELSE t].bindings[n])
                   # ItpValue_get_type(v)) =>
                LET r == borrow_mut(scopes, borrowed, s,
                                    set_or_replace(scopes, borrowed, s, n, v))
                IN  /\ r.st = "err"
                    /\ r.msg = MsgDifferentType
                    /\ r.sc = scopes

\* C28 with no borrow of an ancestor outstanding: the error of replace is
\* passed on, since it does not read "not defined"
C28_WhenNotBorrowed ==
    \A s \in 1..Len(scopes), n \in ScopeNames, v \in ScopeValues :
        LET t == Nearest(scopes, s, n)
        IN  (/\ borrowed = {}
             /\ t # 0
             /\ ItpValue_get_type(scopes[IF t = 0 THEN s ELSE t].bindings[n])
                   # ItpValue_get_type(v)) =>
                LET r == set_or_replace(scopes, borrowed, s, n, v)
                IN  /\ r.st = "err"
                    /\ r.msg = MsgDifferentType
                    /\ r.sc = scopes
                    /\ n \notin DOMAIN r.sc[s].bindings \/ t = s

\* ------------------------------------------------ array literals flattened
\* the argument list with every array literal replaced by its elements
RECURSIVE Flatten(_)
Flatten(asts) ==
    IF asts = <<>> THEN <<>>
    ELSE (IF Head(asts)[1] = "Array" THEN Flatten(Head(asts)[2]) ELSE <<Head(asts)>>)
         \o Flatten(Tail(asts))

\* an array literal of k single-node elements
Literal(k) == PArray([i \in 1..k |-> Num("1.0")])

\* the typed nodes n holds, itself included
RECURSIVE NodesOf(_), NodesOfEach(_)
NodesOf(n) ==
    {n} \cup
    CASE n[1] = "Call" -> NodesOfEach(n[3])
      [] n[1] = "Array" -> NodesOfEach(n[2])
      [] n[1] = "SetVariable" -> NodesOf(n[3])
      [] n[1] = "Conditional" -> NodesOf(n[2]) \cup NodesOf(n[3]) \cup NodesOf(n[4])
      [] n[1] = "Loop" -> NodesOf(n[2]) \cup NodesOf(n[3])
      [] OTHER -> {}
NodesOfEach(ns) == UNION {NodesOf(ns[i]) : i \in 1..Len(ns)}

\* lowering form in the global scope of the current state
LowerHere(form) == interpret_ast(form, 1, scopes, borrowed)

\* form is accepted with the one-element literal and is refused with msg,
\* every scope as it was, with a literal of any other length
SingleOnly(form(_), msg) ==
    \A k \in 0..MaxArgs :
        LET r == LowerHere(form(Literal(k)))
        IN  IF k = 1
            THEN r.st = "ok" /\ Len(r.nodes) = 1 /\ r = LowerHere(form(Num("1.0")))
            ELSE r.st = "err" /\ r.msg = msg /\ r.sc = scopes

\* C29: an array literal lowers to the lowerings of its elements, in order,
\* and to no array node. A call with array literals among its arguments is
\* lowered exactly as the call with the elements written out in their place
\* (same arity check, same positional type check, same node), and an array
\* literal as the value of set or as condition, branch or body of if and
\* while is accepted only when it has one element.
C29_ArrayLiteralFlattened ==
    /\ Called =>
          /\ result = interpret_ast(Call(CallHead, Flatten(CallArgs)), 1,
                                    <<[parent |-> 0, bindings |-> CallEnv]>>, {})
          /\ result.st = "ok" =>
                /\ Len(result.nodes) = 1
                /\ Len(result.nodes[1][3]) = Len(Flatten(CallArgs))
                /\ \A n \in NodesOf(result.nodes[1]) : n[1] # "Array"
    /\ \A k \in 0..MaxArgs :
          LET r == LowerHere(Literal(k))
          IN  r.st = "ok" /\ r.nodes = [i \in 1..k |-> IConstant(PFloat("1.0"))]
    /\ SingleOnly(LAMBDA a : Set("v", a), "Expected single value")
    /\ SingleOnly(LAMBDA a : Macro("if", <<a, Num("1.0"), Num("2.0")>>),
                  "Expected single condition")
    /\ SingleOnly(LAMBDA a : Macro("if", <<Num("1.0"), a, Num("2.0")>>),
                  "Expected single then")
    /\ SingleOnly(LAMBDA a : Macro("if", <<Num("1.0"), Num("2.0"), a>>),
                  "Expected single else")
    /\ SingleOnly(LAMBDA a : Macro("while", <<a, Num("1.0")>>),
                  "Expected single condition")
    /\ SingleOnly(LAMBDA a : Macro("while", <<Num("1.0"), a>>),
                  "Expected single body")

\* a call whose array literal of two elements filled two parameters
C29_Witness ==
    /\ Called
    /\ \E i \in 1..Len(CallArgs) : CallArgs[i] = PArray(<<Num("1.0"), Num("2.0")>>)
    /\ result.st = "ok"
    /\ Len(result.nodes[1][3]) > Len(CallArgs)

\* ------------------------------------------------ pass 1 in source order
\* a top-level call of a name that is no native function
IsUserCall(ast) ==
    /\ ast[1] = "Call"
    /\ ast[2][2] = "Variable"
    /\ ast[2][1] \notin DOMAIN NativeFns

\* a fn form of name n stands before form i
DefinedBefore(i, n) ==
    \E j \in 1..(i - 1) : IsFnForm(prog[j]) /\ FnName(prog[j]) = n

\* C30: pass 1 lowers the top-level forms in source order: a top-level call
\* of a user function is lowered successfully only when a fn form of that
\* name stands before it; when none does, pass 1 gets no further than the
\* call, interpret returns Function not found for that name, and pass 2 has
\* not run. With the fn form first, the same call passes pass 1.
C30_Pass1SourceOrder ==
    /\ \A i \in 1..Len(prog) :
          IsUserCall(prog[i]) =>
              LET n == prog[i][2][1]
              IN  /\ idx > i => DefinedBefore(i, n)
                  /\ ~DefinedBefore(i, n) =>
                        /\ idx <= i
                        /\ pc \in {"pass1", "done"}
                        /\ todo = {}
                        /\ new_functions = EmptyBindings
                        /\ \A m \in Placeholders(scopes, 1) : DefinedBefore(i, m)
                        /\ Functions(scopes) = {}
                        /\ pc = "done" => result.st # "ok" /\ result.at = ""
                        /\ (pc = "done" /\ idx = i) =>
                              /\ result.st = "err"
                              /\ result.msg = "Function not found"
                              /\ result.name = n
                              /\ result.pos
    /\ (prog = <<FnAdd, CallAdd>> /\ pc = "done") =>
          result.st = "ok" /\ Functions(scopes) = {"add"}
    /\ (prog = <<FnF, CallF>> /\ pc = "done") => idx = 3 /\ result.at = "f"

\* the call stood before the fn form of its callee
C30_Witness ==
    /\ pc = "done"
    /\ result.msg = "Function not found"
    /\ result.at = ""
    /\ IsUserCall(prog[idx])
    /\ \E j \in (idx + 1)..Len(prog) :
          IsFnForm(prog[j]) /\ FnName(prog[j]) = result.name

====
